---- MODULE Spec2Model ----
(***************************************************************************)
(* A model of the peri compiler pipeline (src/src/main.rs):                *)
(*   parse -> analysis::semantic::check -> ir::lower::lower                *)
(*         -> analysis::typestate::check -> code generation.               *)
(* The pure passes are operators translated from the Rust source; the      *)
(* pipeline is a state machine over the phases of main(), followed by the  *)
(* execution of an accepted function's control-flow graph.                 *)
(***************************************************************************)
EXTENDS Integers, Sequences, FiniteSets, TLC

VARIABLES prog, pc, errors, ir, ts, ex, asm, destination

vars == <<prog, pc, errors, ir, ts, ex, asm, destination>>

(***************************************************************************)
(* Option<T> is a sequence of length at most one.                          *)
(***************************************************************************)
None == <<>>
Some(x) == <<x>>

Range(s) == {s[i] : i \in 1..Len(s)}

\* Op applied to a value that is computed once, before Op is entered (strict
\* evaluation, as in the source language).
With(value, Op(_)) == CHOOSE r \in {Op(v) : v \in {value}} : TRUE

(***************************************************************************)
(* frontend::ast                                                           *)
(***************************************************************************)
IntLit(v) == [k |-> "IntLit", value |-> v]
Variable(n) == [k |-> "Variable", name |-> n]
FnCall(n, a) == [k |-> "FnCall", name |-> n, args |-> a]
Binary(o, l, r) == [k |-> "Binary", op |-> o, left |-> l, right |-> r]
Unary(o, e) == [k |-> "Unary", op |-> o, operand |-> e]
PeripheralRead(p, r) == [k |-> "PeripheralRead", peripheral |-> p, register |-> r]

Let(n, e) == [k |-> "Let", var_name |-> n, value |-> e]
Assign(n, e) == [k |-> "Assign", var_name |-> n, value |-> e]
ExprStmt(e) == [k |-> "Expr", expr |-> e]
If(c, t, e) == [k |-> "If", cond |-> c, then_block |-> t, else_block |-> e]
While(c, b) == [k |-> "While", cond |-> c, body |-> b]
Return(e) == [k |-> "Return", expr |-> e]
PeripheralWrite(p, r, e) == [k |-> "PeripheralWrite", peripheral |-> p, register |-> r, value |-> e]

TypeState(p, i, o) == [peripheral |-> p, input_state |-> i, output_state |-> o]
Function(n, a, s, b) == [name |-> n, args |-> a, signature |-> s, body |-> b]
Register(n, o) == [name |-> n, offset |-> o]
RegisterBlock(t, rs) == [reg_type |-> t, registers |-> rs]
Peripheral(n, b, ss, i, rbs) ==
    [name |-> n, base_address |-> b, states |-> ss, initial |-> i, register_blocks |-> rbs]
Program(ps, fs) == [peripherals |-> ps, functions |-> fs]

(***************************************************************************)
(* analysis::semantic                                                      *)
(***************************************************************************)
UndefinedVariable(f, v) == [kind |-> "UndefinedVariable", func_name |-> f, var_name |-> v]
UndefinedFunction(f, c) == [kind |-> "UndefinedFunction", func_name |-> f, called_from |-> c]
ArityMismatch(f, e, a, c) ==
    [kind |-> "ArityMismatch", func_name |-> f, expected |-> e, actual |-> a, called_from |-> c]
DuplicateFunction(f) == [kind |-> "DuplicateFunction", func_name |-> f]

\* The index of the last function named n: HashMap::insert overwrites.
LastIndexOf(functions, n) ==
    CHOOSE i \in 1..Len(functions) :
        /\ functions[i].name = n
        /\ \A j \in (i+1)..Len(functions) : functions[j].name # n

\* func_signatures of check(): name -> number of parameters.
func_arities(functions) ==
    [n \in {functions[i].name : i \in 1..Len(functions)} |->
        Len(functions[LastIndexOf(functions, n)].args)]

\* The first loop of check(): one DuplicateFunction per repeated definition.
duplicate_errors(functions) ==
    LET F[i \in 0..Len(functions)] ==
            IF i = 0 THEN <<>>
            ELSE IF \E j \in 1..(i-1) : functions[j].name = functions[i].name
                 THEN Append(F[i-1], DuplicateFunction(functions[i].name))
                 ELSE F[i-1]
    IN F[Len(functions)]

RECURSIVE check_expr(_, _, _, _)
check_expr(expr, func_name, func_signatures, scope) ==
    CASE expr.k = "IntLit" -> <<>>
      [] expr.k = "Variable" ->
            IF expr.name \notin scope
            THEN <<UndefinedVariable(func_name, expr.name)>>
            ELSE <<>>
      [] expr.k = "Binary" ->
            check_expr(expr.left, func_name, func_signatures, scope)
            \o check_expr(expr.right, func_name, func_signatures, scope)
      [] expr.k = "Unary" -> check_expr(expr.operand, func_name, func_signatures, scope)
      [] expr.k = "FnCall" ->
            LET own == IF expr.name \notin DOMAIN func_signatures
                       THEN <<UndefinedFunction(expr.name, func_name)>>
                       ELSE IF Len(expr.args) # func_signatures[expr.name]
                            THEN <<ArityMismatch(expr.name, func_signatures[expr.name],
                                                 Len(expr.args), func_name)>>
                            ELSE <<>>
                A[i \in 0..Len(expr.args)] ==
                    IF i = 0 THEN own
                    ELSE A[i-1] \o check_expr(expr.args[i], func_name, func_signatures, scope)
            IN A[Len(expr.args)]
      [] expr.k = "PeripheralRead" -> <<>>

\* check_statement and the loops over statement lists; the result is the scope
\* after the statement(s) and the errors they pushed, in order.
RECURSIVE check_statement(_, _, _, _)
RECURSIVE check_statements(_, _, _, _)
\* The loop over a statement list, an assignment declaring its target.
check_statements_assign_declares(stmts, func_name, func_signatures, scope) ==
    IF stmts = <<>> THEN [scope |-> scope, errors |-> <<>>]
    ELSE LET h == check_statement(Head(stmts), func_name, func_signatures, scope)
             declared == IF Head(stmts).k = "Assign" THEN {Head(stmts).var_name} ELSE {}
             t == check_statements(Tail(stmts), func_name, func_signatures,
                                   h.scope \cup declared)
         IN [scope |-> t.scope, errors |-> h.errors \o t.errors]

check_statements(stmts, func_name, func_signatures, scope) ==
    IF stmts = <<>> THEN [scope |-> scope, errors |-> <<>>]
    ELSE LET h == check_statement(Head(stmts), func_name, func_signatures, scope)
             t == check_statements(Tail(stmts), func_name, func_signatures, h.scope)
         IN [scope |-> t.scope, errors |-> h.errors \o t.errors]

check_statement(stmt, func_name, func_signatures, scope) ==
    CASE stmt.k = "Let" ->
            [scope |-> scope \cup {stmt.var_name},
             errors |-> check_expr(stmt.value, func_name, func_signatures, scope)]
      [] stmt.k = "Assign" ->
            [scope |-> scope,
             errors |-> (IF stmt.var_name \notin scope
                         THEN <<UndefinedVariable(func_name, stmt.var_name)>> ELSE <<>>)
                        \o check_expr(stmt.value, func_name, func_signatures, scope)]
      [] stmt.k = "Expr" ->
            [scope |-> scope, errors |-> check_expr(stmt.expr, func_name, func_signatures, scope)]
      [] stmt.k = "Return" ->
            [scope |-> scope, errors |-> check_expr(stmt.expr, func_name, func_signatures, scope)]
      [] stmt.k = "If" ->
            [scope |-> scope,
             errors |-> check_expr(stmt.cond, func_name, func_signatures, scope)
                        \o check_statements(stmt.then_block, func_name, func_signatures, scope).errors
                        \o check_statements(stmt.else_block, func_name, func_signatures, scope).errors]
      [] stmt.k = "While" ->
            [scope |-> scope,
             errors |-> check_expr(stmt.cond, func_name, func_signatures, scope)
                        \o check_statements(stmt.body, func_name, func_signatures, scope).errors]
      [] stmt.k = "PeripheralWrite" ->
            [scope |-> scope, errors |-> check_expr(stmt.value, func_name, func_signatures, scope)]

\* check_function with every name of the program taken to be in scope already.
check_function_unscoped(func, func_signatures) ==
    check_statements(func.body, func.name, func_signatures,
                     {"a", "b", "c", "d", "e", "f", "g", "h", "n", "w", "x", "y"}).errors

check_function(func, func_signatures) ==
    check_statements(func.body, func.name, func_signatures,
                     {func.args[i][1] : i \in 1..Len(func.args)}).errors

\* semantic::check: the list of errors (Ok(()) is the empty list).
semantic_check(program) ==
    LET fs == program.functions
        sigs == func_arities(fs)
        E[i \in 0..Len(fs)] ==
            IF i = 0 THEN duplicate_errors(fs)
            ELSE E[i-1] \o check_function(fs[i], sigs)
    IN E[Len(fs)]

(***************************************************************************)
(* ir::cfg and ir (the block-structured intermediate representation)       *)
(***************************************************************************)
TNone == [k |-> "None"]
TJump(t) == [k |-> "Jump", target |-> t]
TBranch(c, t, e) == [k |-> "Branch", cond |-> c, then_block |-> t, else_block |-> e]
TReturn(v) == [k |-> "Return", val |-> v]
TFallthrough(t) == [k |-> "Fallthrough", target |-> t]

SLet(n, e) == [k |-> "Let", var_name |-> n, value |-> e]
SAssign(n, e) == [k |-> "Assign", var_name |-> n, value |-> e]
SExpr(e) == [k |-> "Expr", expr |-> e]
SPeripheralDriverCall(f, p, a, b) ==
    [k |-> "PeripheralDriverCall", function |-> f, peripheral |-> p,
     from_state |-> a, to_state |-> b]
SPeripheralWrite(p, r, e) ==
    [k |-> "PeripheralWrite", peripheral |-> p, register |-> r, value |-> e]

Instruction(o, d, a) == [operation |-> o, destination |-> d, args |-> a]
Op(n) == [op |-> n]
OpLoadImm(v) == [op |-> "LoadImm", value |-> v]
OpLoadAddr(a) == [op |-> "LoadAddr", addr |-> a]
OpMovArg(i) == [op |-> "MovArg", index |-> i]
OpCall(n) == [op |-> "Call", name |-> n]

BasicBlock_new(id) ==
    [id |-> id, statements |-> <<>>, instructions |-> <<>>, terminator |-> TNone]
CFG_new == [blocks |-> <<>>, entry |-> 0]
\* Block ids count from 0; blocks[id + 1] is Vec index id.
Block(cfg, id) == cfg.blocks[id + 1]
CFG_add_block(cfg) == [cfg EXCEPT !.blocks = Append(@, BasicBlock_new(Len(@)))]

(***************************************************************************)
(* ir::lower                                                               *)
(***************************************************************************)
\* HashMap of the signed functions: a later insert of the same name overwrites.
build_signature_map(program) ==
    LET fs == program.functions
        signed == {i \in 1..Len(fs) : fs[i].signature # None}
        last(n) == CHOOSE i \in signed :
                      /\ fs[i].name = n
                      /\ \A j \in signed : fs[j].name = n => j <= i
    IN [n \in {fs[i].name : i \in signed} |-> fs[last(n)].signature[1]]

\* Context::new: the entry block exists and is current.  "panicked" records an
\* expect() that failed: the process has aborted and nothing more is done.
Context_new(peripherals, signatures) ==
    [vars |-> <<>>, peripherals |-> peripherals, signatures |-> signatures,
     cfg |-> CFG_add_block(CFG_new), current_block |-> 0, next_register |-> 0,
     panicked |-> FALSE]

panic(ctx) == [ctx EXCEPT !.panicked = TRUE]
new_register(ctx) == IF ctx.panicked THEN ctx ELSE [ctx EXCEPT !.next_register = @ + 1]
add_block(ctx) == IF ctx.panicked THEN ctx ELSE [ctx EXCEPT !.cfg = CFG_add_block(@)]
switch_to(ctx, block) == IF ctx.panicked THEN ctx ELSE [ctx EXCEPT !.current_block = block]
emit_instr(ctx, instr) ==
    IF ctx.panicked THEN ctx
    ELSE [ctx EXCEPT !.cfg.blocks[ctx.current_block + 1].instructions = Append(@, instr)]
emit_stmt(ctx, stmt) ==
    IF ctx.panicked THEN ctx
    ELSE [ctx EXCEPT !.cfg.blocks[ctx.current_block + 1].statements = Append(@, stmt)]
set_terminator(ctx, term) ==
    IF ctx.panicked THEN ctx
    ELSE [ctx EXCEPT !.cfg.blocks[ctx.current_block + 1].terminator = term]
bind_var(ctx, name, reg) ==
    IF ctx.panicked THEN ctx ELSE [ctx EXCEPT !.vars = (name :> reg) @@ @]
\* The guard of the three "if matches!(.. terminator, Terminator::None)" sites.
current_unterminated(ctx) == Block(ctx.cfg, ctx.current_block).terminator = TNone

\* The registers of a peripheral, block after block.
all_registers(p) ==
    LET R[b \in 0..Len(p.register_blocks)] ==
            IF b = 0 THEN <<>> ELSE R[b-1] \o p.register_blocks[b].registers
    IN R[Len(p.register_blocks)]

\* The offset of the first register of that name, if there is one.
register_offset(regs, register_name) ==
    LET F[i \in 1..(Len(regs) + 1)] ==
            IF i > Len(regs) THEN None
            ELSE IF regs[i].name = register_name THEN Some(regs[i].offset)
            ELSE F[i+1]
    IN F[1]

\* get_mmio_address: Some(base + offset) or None.  The addresses of the model
\* stay far below 2^32, so the u32 sum never overflows.
get_mmio_address(ctx, peripheral_name, register_name) ==
    LET ps == ctx.peripherals
        at(base, off, rest) ==
            IF base = None THEN None
            ELSE IF off # None THEN Some(base[1] + off[1])
            ELSE rest
        G[i \in 1..(Len(ps) + 1)] ==
            IF i > Len(ps) THEN None
            ELSE IF ps[i].name # peripheral_name THEN G[i+1]
            ELSE at(ps[i].base_address,
                    register_offset(all_registers(ps[i]), register_name), G[i+1])
    IN G[1]

RECURSIVE ast_expr_to_cfg(_)
ast_expr_to_cfg(expr) ==
    CASE expr.k = "IntLit" -> [k |-> "IntLit", value |-> expr.value]
      [] expr.k = "Variable" -> [k |-> "Variable", name |-> expr.name]
      [] expr.k = "Binary" ->
            [k |-> "Binary", op |-> expr.op, left |-> ast_expr_to_cfg(expr.left),
             right |-> ast_expr_to_cfg(expr.right)]
      [] expr.k = "Unary" ->
            [k |-> "Unary", op |-> expr.op, operand |-> ast_expr_to_cfg(expr.operand)]
      [] expr.k = "PeripheralRead" ->
            [k |-> "PeripheralRead", peripheral |-> expr.peripheral, register |-> expr.register]
      [] expr.k = "FnCall" ->
            [k |-> "FnCall", name |-> expr.name,
             args |-> [i \in 1..Len(expr.args) |-> ast_expr_to_cfg(expr.args[i])]]

binary_ir_op(op) ==
    CASE op = "Mod" -> "Rem"
      [] op = "BitAnd" -> "And"
      [] op = "BitOr" -> "Or"
      [] op = "BitXor" -> "Xor"
      [] op = "Shl" -> "Sll"
      [] op = "Shr" -> "Srl"
      [] OTHER -> op

unary_ir_op(op) == IF op = "Neg" THEN "Neg" ELSE "Not"

\* lower_expression: the context after the emitted instructions and the
\* register that holds the value.
\* A fresh destination register and the instruction that writes it.
emit_to_fresh(ctx, operation, args) ==
    [ctx |-> emit_instr(new_register(ctx),
                        Instruction(operation, Some(ctx.next_register), args)),
     reg |-> ctx.next_register]

RECURSIVE lower_expression(_, _)
lower_expression(ctx, expr) ==
    IF ctx.panicked THEN [ctx |-> ctx, reg |-> 0]
    ELSE
    CASE expr.k = "IntLit" -> emit_to_fresh(ctx, OpLoadImm(expr.value), <<>>)
      [] expr.k = "Variable" ->
            IF expr.name \in DOMAIN ctx.vars
            THEN [ctx |-> ctx, reg |-> ctx.vars[expr.name]]
            ELSE [ctx |-> panic(ctx), reg |-> 0]
      [] expr.k = "FnCall" ->
            LET step(prev, r) == [ctx |-> r.ctx, regs |-> Append(prev.regs, r.reg)]
                A[i \in 0..Len(expr.args)] ==
                    IF i = 0 THEN [ctx |-> ctx, regs |-> <<>>]
                    ELSE step(A[i-1], lower_expression(A[i-1].ctx, expr.args[i]))
                call(a) == emit_to_fresh(a.ctx, OpCall(expr.name), a.regs)
            IN call(A[Len(expr.args)])
      [] expr.k = "PeripheralRead" ->
            LET load(addr) ==
                    IF addr = None THEN [ctx |-> panic(ctx), reg |-> 0]
                    ELSE emit_to_fresh(emit_to_fresh(ctx, OpLoadAddr(addr[1]), <<>>).ctx,
                                       Op("LoadWord"), <<ctx.next_register>>)
            IN load(get_mmio_address(ctx, expr.peripheral, expr.register))
      [] expr.k = "Binary" ->
            LET emit(l, r) == emit_to_fresh(r.ctx, Op(binary_ir_op(expr.op)), <<l.reg, r.reg>>)
                right(l) == emit(l, lower_expression(l.ctx, expr.right))
            IN right(lower_expression(ctx, expr.left))
      [] expr.k = "Unary" ->
            LET emit(o) == emit_to_fresh(o.ctx, Op(unary_ir_op(expr.op)), <<o.reg>>)
            IN emit(lower_expression(ctx, expr.operand))

\* The semantic statement of an expression statement: a call of a signed
\* function becomes the verifier's PeripheralDriverCall.
expr_statement(ctx, expr) ==
    IF expr.k = "FnCall" /\ expr.name \in DOMAIN ctx.signatures
    THEN LET sig == ctx.signatures[expr.name]
         IN SPeripheralDriverCall(expr.name, sig.peripheral, sig.input_state, sig.output_state)
    ELSE SExpr(ast_expr_to_cfg(expr))

\* The Jump that closes a branch or a loop body, set without looking at the
\* terminator the tail block has.
close_block_unguarded(ctx, target) ==
    IF ctx.panicked THEN ctx ELSE set_terminator(ctx, TJump(target))

\* The Jump that closes a branch or a loop body, sent to the entry block.
close_block_to_entry(ctx, target) ==
    IF ctx.panicked THEN ctx
    ELSE IF current_unterminated(ctx) THEN set_terminator(ctx, TJump(ctx.cfg.entry)) ELSE ctx

\* "if the tail block has no terminator, jump to target" (If and While).
close_block(ctx, target) ==
    IF ctx.panicked THEN ctx
    ELSE IF current_unterminated(ctx) THEN set_terminator(ctx, TJump(target)) ELSE ctx

RECURSIVE lower_statement(_, _)
RECURSIVE lower_statements(_, _)
lower_statements(ctx, stmts) ==
    IF stmts = <<>> THEN ctx
    ELSE lower_statements(lower_statement(ctx, Head(stmts)), Tail(stmts))

lower_statement(ctx, stmt) ==
    IF ctx.panicked THEN ctx
    ELSE
    CASE stmt.k = "Let" ->
            LET bind(r) == bind_var(r.ctx, stmt.var_name, r.reg)
            IN bind(lower_expression(
                        emit_stmt(ctx, SLet(stmt.var_name, ast_expr_to_cfg(stmt.value))),
                        stmt.value))
      [] stmt.k = "Assign" ->
            LET mov(r) ==
                    IF r.ctx.panicked THEN r.ctx
                    ELSE IF stmt.var_name \notin DOMAIN r.ctx.vars THEN panic(r.ctx)
                    ELSE emit_instr(r.ctx, Instruction(Op("Mov"),
                                                       Some(r.ctx.vars[stmt.var_name]),
                                                       <<r.reg>>))
            IN mov(lower_expression(
                       emit_stmt(ctx, SAssign(stmt.var_name, ast_expr_to_cfg(stmt.value))),
                       stmt.value))
      [] stmt.k = "Expr" ->
            lower_expression(emit_stmt(ctx, expr_statement(ctx, stmt.expr)), stmt.expr).ctx
      [] stmt.k = "If" ->
            LET branch(c, then_bb, else_bb, merge_bb) ==
                    switch_to(
                        close_block(
                            lower_statements(
                                switch_to(
                                    close_block(
                                        lower_statements(
                                            switch_to(
                                                set_terminator(
                                                    add_block(add_block(add_block(c.ctx))),
                                                    TBranch(c.reg, then_bb, else_bb)),
                                                then_bb),
                                            stmt.then_block),
                                        merge_bb),
                                    else_bb),
                                stmt.else_block),
                            merge_bb),
                        merge_bb)
                blocks(c, n) == branch(c, n, n + 1, n + 2)
                cond(c) == blocks(c, Len(c.ctx.cfg.blocks))
            IN cond(lower_expression(ctx, stmt.cond))
      [] stmt.k = "While" ->
            LET loop(c, header_bb, body_bb, exit_bb) ==
                    switch_to(
                        close_block(
                            lower_statements(
                                switch_to(set_terminator(c.ctx,
                                                         TBranch(c.reg, body_bb, exit_bb)),
                                          body_bb),
                                stmt.body),
                            header_bb),
                        exit_bb)
                header(header_bb) ==
                    loop(lower_expression(
                             switch_to(set_terminator(add_block(add_block(add_block(ctx))),
                                                      TJump(header_bb)),
                                       header_bb),
                             stmt.cond),
                         header_bb, header_bb + 1, header_bb + 2)
            IN header(Len(ctx.cfg.blocks))
      [] stmt.k = "Return" ->
            LET ret(r) == set_terminator(r.ctx, TReturn(Some(r.reg)))
            IN ret(lower_expression(ctx, stmt.expr))
      [] stmt.k = "PeripheralWrite" ->
            LET store(r, addr) ==
                    IF r.ctx.panicked THEN r.ctx
                    ELSE IF addr = None THEN panic(r.ctx)
                    ELSE emit_instr(
                             emit_to_fresh(r.ctx, OpLoadAddr(addr[1]), <<>>).ctx,
                             Instruction(Op("StoreWord"), None, <<r.reg, r.ctx.next_register>>))
                value(r) == store(r, get_mmio_address(r.ctx, stmt.peripheral, stmt.register))
            IN value(lower_expression(
                         emit_stmt(ctx, SPeripheralWrite(stmt.peripheral, stmt.register,
                                                         ast_expr_to_cfg(stmt.value))),
                         stmt.value))

\* The parameters of lower_function: MovArg(i) into a fresh register each.
lower_args(ctx, args) ==
    LET arg(c, i) ==
            emit_instr(bind_var(new_register(c), args[i][1], c.next_register),
                       Instruction(OpMovArg(i - 1), Some(c.next_register), <<>>))
        A[i \in 0..Len(args)] == IF i = 0 THEN ctx ELSE arg(A[i-1], i)
    IN A[Len(args)]

\* lower_function without its final "if matches!(.., Terminator::None)" step.
implicit_return_absent(ctx) == ctx

\* The implicit Return(None) of a function whose last block is unterminated.
implicit_return(ctx) ==
    IF ctx.panicked THEN ctx
    ELSE IF current_unterminated(ctx) THEN set_terminator(ctx, TReturn(None)) ELSE ctx

\* lower_function: the final context; its cfg is the function's CFG.
lower_function(func, peripherals, signatures) ==
    implicit_return(
        lower_statements(lower_args(Context_new(peripherals, signatures), func.args),
                         func.body))

\* lower: the (name, CFG) pairs in function order, and whether lowering aborted.
lower(program) ==
    LET fs == program.functions
        push(prev, i, c) ==
            IF c.panicked THEN [functions |-> prev.functions, panicked |-> TRUE]
            ELSE [functions |-> Append(prev.functions, [name |-> fs[i].name, cfg |-> c.cfg]),
                  panicked |-> FALSE]
        step(prev, i, sigs) ==
            IF prev.panicked THEN prev
            ELSE push(prev, i, lower_function(fs[i], program.peripherals, sigs))
        all(sigs) ==
            LET L[i \in 0..Len(fs)] ==
                    IF i = 0 THEN [functions |-> <<>>, panicked |-> FALSE]
                    ELSE step(L[i-1], i, sigs)
            IN L[Len(fs)]
    IN all(build_signature_map(program))

(***************************************************************************)
(* analysis::typestate                                                     *)
(***************************************************************************)
InvalidTransition(f, c, p, e, a) ==
    [kind |-> "InvalidTransition", func_name |-> f, called_from |-> c, peripheral |-> p,
     expected_state |-> e, actual_state |-> a]
BranchStateMismatch(f, p, t, e) ==
    [kind |-> "BranchStateMismatch", func_name |-> f, peripheral |-> p,
     then_state |-> t, else_state |-> e]
WrongExitState(f, p, e, a) ==
    [kind |-> "WrongExitState", func_name |-> f, peripheral |-> p, expected |-> e, actual |-> a]
UnknownPeripheral(f, n) == [kind |-> "UnknownPeripheral", func_name |-> f, name |-> n]

\* impl fmt::Display for TypestateError, as the pieces of the rendered line.
display(err) ==
    CASE err.kind = "InvalidTransition" ->
            <<"Call to '", err.func_name, "' requires '", err.peripheral, "' in state '",
              err.expected_state, "', but found '", err.actual_state, "', called from '",
              err.called_from, "'">>
      [] err.kind = "BranchStateMismatch" ->
            <<"Branch in ", err.func_name, " leaves '", err.peripheral,
              "' in different states: then = '", err.then_state, "', else = '",
              err.else_state, "'">>
      [] err.kind = "WrongExitState" ->
            <<"Function '", err.func_name, "' declares output state '", err.expected,
              "' for '", err.peripheral, "', but body produces '", err.actual, "'">>
      [] err.kind = "UnknownPeripheral" ->
            <<"Unknown peripheral '", err.name, "' in function '", err.func_name, "'">>

\* init_state_env: every declared peripheral in its initial state (the last
\* declaration of a name wins).
init_state_env(peripherals) ==
    LET last(n) == CHOOSE i \in 1..Len(peripherals) :
                      /\ peripherals[i].name = n
                      /\ \A j \in (i+1)..Len(peripherals) : peripherals[j].name # n
    IN [n \in {peripherals[i].name : i \in 1..Len(peripherals)} |->
            peripherals[last(n)].initial]

cfg_calls_drivers(cfg, signatures) ==
    \E b \in 1..Len(cfg.blocks) : \E i \in 1..Len(cfg.blocks[b].statements) :
        LET stmt == cfg.blocks[b].statements[i]
        IN \/ stmt.k = "PeripheralDriverCall"
           \/ /\ stmt.k = "Expr"
              /\ stmt.expr.k = "FnCall"
              /\ stmt.expr.name \in DOMAIN signatures

classify_function(func, cfg, signatures) ==
    IF func.signature = None THEN "Orchestration"
    ELSE IF cfg_calls_drivers(cfg, signatures) THEN "CompositeDriver"
    ELSE "LeafDriver"

\* The driver-call premise without "state_env.insert(peripheral, to_state)".
driver_call_without_insert(state_env, callee, peripheral, from_state, to_state, func_name) ==
    IF peripheral \notin DOMAIN state_env
    THEN [err |-> Some(UnknownPeripheral(func_name, peripheral)), env |-> state_env]
    ELSE IF state_env[peripheral] # from_state
    THEN [err |-> Some(InvalidTransition(callee, func_name, peripheral, from_state,
                                         state_env[peripheral])),
          env |-> state_env]
    ELSE [err |-> None, env |-> state_env]

\* One driver-call premise: Sigma(P) = S_in, then Sigma[P |-> S_out].
driver_call(state_env, callee, peripheral, from_state, to_state, func_name) ==
    IF peripheral \notin DOMAIN state_env
    THEN [err |-> Some(UnknownPeripheral(func_name, peripheral)), env |-> state_env]
    ELSE IF state_env[peripheral] # from_state
    THEN [err |-> Some(InvalidTransition(callee, func_name, peripheral, from_state,
                                         state_env[peripheral])),
          env |-> state_env]
    ELSE [err |-> None, env |-> [state_env EXCEPT ![peripheral] = to_state]]

\* verify_statement: the error, if any, and the environment after the statement.
verify_statement(stmt, state_env, signatures, func_name) ==
    CASE stmt.k = "PeripheralDriverCall" ->
            driver_call(state_env, stmt.function, stmt.peripheral, stmt.from_state,
                        stmt.to_state, func_name)
      [] stmt.k = "Expr" /\ stmt.expr.k = "FnCall" /\ stmt.expr.name \in DOMAIN signatures ->
            LET sig == signatures[stmt.expr.name]
            IN driver_call(state_env, stmt.expr.name, sig.peripheral, sig.input_state,
                           sig.output_state, func_name)
      [] OTHER -> [err |-> None, env |-> state_env]

\* The peripheral a statement's driver call names, for the record of the walk.
stmt_peripheral(stmt, signatures) ==
    CASE stmt.k = "PeripheralDriverCall" -> {stmt.peripheral}
      [] stmt.k = "Expr" /\ stmt.expr.k = "FnCall" /\ stmt.expr.name \in DOMAIN signatures ->
            {signatures[stmt.expr.name].peripheral}
      [] OTHER -> {}

\* The loop over a block's statements, stopped by the first error.  "touched"
\* records the peripherals of the driver calls the walk has processed.
verify_block_statements(stmts, state_env, signatures, func_name) ==
    LET step(prev, i, r) ==
            [err |-> r.err, env |-> r.env,
             touched |-> prev.touched \cup stmt_peripheral(stmts[i], signatures)]
        next(prev, i) ==
            IF prev.err # None THEN prev
            ELSE step(prev, i, verify_statement(stmts[i], prev.env, signatures, func_name))
        V[i \in 0..Len(stmts)] ==
            IF i = 0 THEN [err |-> None, env |-> state_env, touched |-> {}]
            ELSE next(V[i-1], i)
    IN V[Len(stmts)]

\* The first peripheral, in the iteration order of then_env, on which the two
\* environments disagree.  The iteration order of a HashMap is not specified:
\* "order" is the order of this run.
first_mismatch(then_env, else_env, order) ==
    LET bad == {i \in 1..Len(order) :
                    /\ order[i] \in DOMAIN then_env
                    /\ order[i] \in DOMAIN else_env
                    /\ then_env[order[i]] # else_env[order[i]]}
        first(b) == IF b = {} THEN None ELSE Some(order[CHOOSE i \in b : \A j \in b : i <= j])
    IN first(bad)

Max(a, b) == IF a >= b THEN a ELSE b

\* The end of the Branch arm: both walks succeeded and are compared.
merge_branches(s, t, e, m, func_name) ==
    [err |-> IF m = None THEN None
             ELSE Some(BranchStateMismatch(func_name, m[1], t.env[m[1]], e.env[m[1]])),
     env |-> IF m = None THEN t.env ELSE s.env,
     touched |-> s.touched \cup t.touched \cup e.touched,
     depth |-> Max(t.depth, e.depth)]

\* A call on a visited block that returns Ok with the environment emptied.
visited_block_env_lost(state_env, depth) ==
    [err |-> None, env |-> <<>>, touched |-> {}, depth |-> depth]

\* `if visited.contains(&block_id) { return Ok(()); }`: nothing is verified and
\* the environment is left as it is.
visited_block(state_env, depth) ==
    [err |-> None, env |-> state_env, touched |-> {}, depth |-> depth]

\* verify_block_recursive: "visited" holds the blocks of the current path,
\* "depth" the number of active calls; the result carries the deepest call.
RECURSIVE verify_block_recursive(_, _, _, _, _, _, _, _)
verify_block_recursive(cfg, block_id, state_env, signatures, visited, func_name, order, depth) ==
    IF block_id \in visited
    THEN visited_block(state_env, depth)
    ELSE
    LET seen == visited \cup {block_id}
        else_walk(s, t, e) ==
            IF e.err # None
            THEN [e EXCEPT !.touched = @ \cup s.touched \cup t.touched,
                           !.depth = Max(t.depth, e.depth)]
            ELSE merge_branches(s, t, e, first_mismatch(t.env, e.env, order), func_name)
        then_walk(s, term, t) ==
            IF t.err # None THEN [t EXCEPT !.touched = @ \cup s.touched]
            ELSE else_walk(s, t,
                           verify_block_recursive(cfg, term.else_block, s.env, signatures,
                                                  seen, func_name, order, depth + 1))
        jump_walk(s, r) == [r EXCEPT !.touched = @ \cup s.touched]
        walk(s, term) ==
            IF s.err # None \/ term.k \in {"Return", "None"}
            THEN [err |-> s.err, env |-> s.env, touched |-> s.touched, depth |-> depth]
            ELSE IF term.k = "Branch"
            THEN then_walk(s, term,
                           verify_block_recursive(cfg, term.then_block, s.env, signatures,
                                                  seen, func_name, order, depth + 1))
            ELSE jump_walk(s, verify_block_recursive(cfg, term.target, s.env, signatures,
                                                     seen, func_name, order, depth + 1))
    IN walk(verify_block_statements(Block(cfg, block_id).statements, state_env, signatures,
                                    func_name),
            Block(cfg, block_id).terminator)

verify_cfg(cfg, state_env, signatures, func_name, order) ==
    verify_block_recursive(cfg, cfg.entry, state_env, signatures, {}, func_name, order, 1)

\* The environment a CompositeDriver's walk starts from.
composite_entry_env(func, peripherals) ==
    (func.signature[1].peripheral :> func.signature[1].input_state)
        @@ init_state_env(peripherals)

\* The check of the derived state against the declared output state.
exit_state_error(func, sig, w) ==
    IF w.err # None THEN w.err
    ELSE IF sig.peripheral \notin DOMAIN w.env
    THEN Some(UnknownPeripheral(func.name, sig.peripheral))
    ELSE IF w.env[sig.peripheral] # sig.output_state
    THEN Some(WrongExitState(func.name, sig.peripheral, sig.output_state, w.env[sig.peripheral]))
    ELSE None

\* verify_function: the error, if any, with the function's class, the derived
\* environment and the record of the walk (empty for a trusted LeafDriver).
verify_function(func, cfg, peripherals, signatures, order) ==
    LET result(kind, w, err) ==
            [kind |-> kind, err |-> err, env |-> w.env, touched |-> w.touched,
             depth |-> w.depth]
        composite(kind, w) == result(kind, w, exit_state_error(func, func.signature[1], w))
        orchestration(kind, w) == result(kind, w, w.err)
        by_kind(kind) ==
            IF kind = "LeafDriver"
            THEN [kind |-> kind, err |-> None, env |-> <<>>, touched |-> {}, depth |-> 0]
            ELSE IF kind = "CompositeDriver"
            THEN composite(kind, verify_cfg(cfg, composite_entry_env(func, peripherals),
                                            signatures, func.name, order))
            ELSE orchestration(kind, verify_cfg(cfg, init_state_env(peripherals), signatures,
                                                func.name, order))
    IN by_kind(classify_function(func, cfg, signatures))

\* A loop body that keeps the first error and goes on to the next function.
check_step_continue(prev, i, r) ==
    [err |-> IF prev.err # None THEN prev.err
             ELSE IF r.err = None THEN None ELSE Some(display(r.err[1])),
     verified |-> i]

\* The body of the loop of check(): Err(format!("{}", err)) ends the check.
check_step(prev, i, r) ==
    IF prev.err # None THEN prev
    ELSE [err |-> IF r.err = None THEN None ELSE Some(display(r.err[1])), verified |-> i]

\* typestate::check: the functions are verified in order and the first error
\* ends the check.  "verified" counts the calls of verify_function made.
typestate_check(program, lowered, order) ==
    LET all(signatures) ==
            LET C[i \in 0..Len(lowered)] ==
                    IF i = 0 THEN [err |-> None, verified |-> 0]
                    ELSE check_step(C[i-1], i,
                                    verify_function(program.functions[i], lowered[i].cfg,
                                                    program.peripherals, signatures, order))
            IN C[Len(lowered)]
    IN all(build_signature_map(program))

(***************************************************************************)
(* ir::cfg: CFG::flatten                                                   *)
(***************************************************************************)
\* The decimal digits of n, as "{}" prints a usize.
RECURSIVE decimal(_)
decimal(n) == IF n < 10 THEN <<n>> ELSE decimal(n \div 10) \o <<n % 10>>

\* format!(".LBB{}", id): the prefix followed by the digits of id.
block_label(id) == <<".LBB">> \o decimal(id)

OpLabel(l) == [op |-> "Label", label |-> l]
OpJump(l) == [op |-> "Jump", label |-> l]
OpBranchIfFalse(l) == [op |-> "BranchIfFalse", label |-> l]
OpRet(val) == [op |-> "Ret", val |-> val]

\* The match on block.terminator with a Branch never followed by a Jump.
flatten_terminator_single(block) ==
    CASE block.terminator.k = "Jump" ->
            <<Instruction(OpJump(block_label(block.terminator.target)), None, <<>>)>>
      [] block.terminator.k = "Branch" ->
            <<Instruction(OpBranchIfFalse(block_label(block.terminator.else_block)),
                          None, <<block.terminator.cond>>)>>
      [] block.terminator.k = "Return" ->
            <<Instruction(OpRet(block.terminator.val), None, block.terminator.val)>>
      [] block.terminator.k = "Fallthrough" ->
            IF block.terminator.target # block.id + 1
            THEN <<Instruction(OpJump(block_label(block.terminator.target)), None, <<>>)>>
            ELSE <<>>
      [] OTHER -> <<>>

\* The match on block.terminator with the two targets of a Branch exchanged:
\* the branch-if-false goes to the then-block.
flatten_terminator_exchanged(block) ==
    CASE block.terminator.k = "Jump" ->
            <<Instruction(OpJump(block_label(block.terminator.target)), None, <<>>)>>
      [] block.terminator.k = "Branch" ->
            <<Instruction(OpBranchIfFalse(block_label(block.terminator.then_block)),
                          None, <<block.terminator.cond>>)>>
            \o (IF block.terminator.else_block # block.id + 1
                THEN <<Instruction(OpJump(block_label(block.terminator.else_block)),
                                   None, <<>>)>>
                ELSE <<>>)
      [] block.terminator.k = "Return" ->
            <<Instruction(OpRet(block.terminator.val), None, block.terminator.val)>>
      [] OTHER -> <<>>

\* The match on block.terminator: the instructions a terminator becomes.
flatten_terminator(block) ==
    CASE block.terminator.k = "Jump" ->
            <<Instruction(OpJump(block_label(block.terminator.target)), None, <<>>)>>
      [] block.terminator.k = "Branch" ->
            <<Instruction(OpBranchIfFalse(block_label(block.terminator.else_block)),
                          None, <<block.terminator.cond>>)>>
            \o (IF block.terminator.then_block # block.id + 1
                THEN <<Instruction(OpJump(block_label(block.terminator.then_block)),
                                   None, <<>>)>>
                ELSE <<>>)
      [] block.terminator.k = "Return" ->
            <<Instruction(OpRet(block.terminator.val), None, block.terminator.val)>>
      [] block.terminator.k = "Fallthrough" ->
            IF block.terminator.target # block.id + 1
            THEN <<Instruction(OpJump(block_label(block.terminator.target)), None, <<>>)>>
            ELSE <<>>
      [] OTHER -> <<>>

\* One turn of the loop of flatten: label, instructions, terminator.
flatten_block(cfg, block) ==
    (IF block.id # cfg.entry
     THEN <<Instruction(OpLabel(block_label(block.id)), None, <<>>)>> ELSE <<>>)
    \o block.instructions
    \o flatten_terminator(block)

flatten(cfg) ==
    LET F[b \in 0..Len(cfg.blocks)] ==
            IF b = 0 THEN <<>> ELSE F[b-1] \o flatten_block(cfg, cfg.blocks[b])
    IN F[Len(cfg.blocks)]

\* The position of the Label instruction a j / beqz names: the first one of
\* that name, or -1 when the stream defines no such label.
LabelAt(stream, l) ==
    LET at == {i \in 1..Len(stream) : stream[i].operation = OpLabel(l)}
    IN IF at = {} THEN -1 ELSE CHOOSE i \in at : \A j \in at : i <= j

\* The position after the instruction at p has run: "j l" goes to l, "beqz r, l"
\* goes to l when r is zero, the sequence of a Ret ends in "ret" (position 0:
\* the function is left), a label and every other instruction go on to p + 1.
StreamNext(stream, p, zero) ==
    IF p \notin 1..Len(stream) THEN p
    ELSE CASE stream[p].operation.op = "Jump" -> LabelAt(stream, stream[p].operation.label)
           [] stream[p].operation.op = "BranchIfFalse" ->
                 IF zero THEN LabelAt(stream, stream[p].operation.label) ELSE p + 1
           [] stream[p].operation.op = "Ret" -> 0
           [] OTHER -> p + 1

\* The transfer of control that starts at p: the instruction at p, then the
\* "j" a beqz that was not taken has fallen into, if there is one.
TransferTo(stream, p, zero) ==
    LET jump(q) ==
            IF q \in 1..Len(stream) /\ stream[q].operation.op = "Jump"
            THEN StreamNext(stream, q, zero) ELSE q
    IN jump(StreamNext(stream, p, zero))

\* A label is not an instruction: the machine is at the line after it.
SkipLabel(stream, p) ==
    IF p \in 1..Len(stream) /\ stream[p].operation.op = "Label" THEN p + 1 ELSE p

(***************************************************************************)
(* backend::liveness                                                       *)
(***************************************************************************)
get_successors(term) ==
    CASE term.k \in {"Jump", "Fallthrough"} -> {term.target}
      [] term.k = "Branch" -> {term.then_block, term.else_block}
      [] OTHER -> {}

\* The register a terminator reads: the condition of a Branch, the value of a
\* Return(Some(reg)).
terminator_reads(term) ==
    CASE term.k = "Branch" -> {term.cond}
      [] term.k = "Return" -> Range(term.val)
      [] OTHER -> {}

\* The first loop of analyse, the register of the terminator counted as used
\* whether or not the block defines it.
block_use_def_terminator_always(block) ==
    LET step(acc, instr) ==
            [use_set |-> acc.use_set \cup (Range(instr.args) \ acc.def_set),
             def_set |-> acc.def_set \cup Range(instr.destination)]
        F[i \in 0..Len(block.instructions)] ==
            IF i = 0 THEN [use_set |-> {}, def_set |-> {}]
            ELSE step(F[i-1], block.instructions[i])
        term(acc) == [use_set |-> acc.use_set \cup terminator_reads(block.terminator),
                      def_set |-> acc.def_set]
    IN term(F[Len(block.instructions)])

\* The first loop of analyse for one block: an argument or a terminator
\* register enters use_set only if the block has not defined it before.
block_use_def(block) ==
    LET step(acc, instr) ==
            [use_set |-> acc.use_set \cup (Range(instr.args) \ acc.def_set),
             def_set |-> acc.def_set \cup Range(instr.destination)]
        F[i \in 0..Len(block.instructions)] ==
            IF i = 0 THEN [use_set |-> {}, def_set |-> {}]
            ELSE step(F[i-1], block.instructions[i])
        term(acc) == [use_set |-> acc.use_set
                                  \cup (terminator_reads(block.terminator) \ acc.def_set),
                      def_set |-> acc.def_set]
    IN term(F[Len(block.instructions)])

\* The result before the iteration: use and def computed, live sets empty.
liveness_start(cfg) ==
    [b \in 1..Len(cfg.blocks) |->
        [live_in |-> {}, live_out |-> {},
         use_set |-> block_use_def(cfg.blocks[b]).use_set,
         def_set |-> block_use_def(cfg.blocks[b]).def_set]]

\* The body of the for loop for the block at index b, on the map as it stands.
liveness_update(cfg, result, b) ==
    LET with(new_live_out) ==
            [result EXCEPT ![b].live_out = new_live_out,
                           ![b].live_in = result[b].use_set
                                          \cup (new_live_out \ result[b].def_set)]
    IN with(UNION {result[s + 1].live_in :
                      s \in get_successors(cfg.blocks[b].terminator)
                             \cap (0..(Len(cfg.blocks) - 1))})

\* One turn of the while loop: the blocks from the last to the first.
liveness_pass(cfg, result) ==
    LET P[k \in 0..Len(cfg.blocks)] ==
            IF k = 0 THEN result
            ELSE With(P[k-1], LAMBDA r : liveness_update(cfg, r, Len(cfg.blocks) + 1 - k))
    IN P[Len(cfg.blocks)]

\* The loop left after its first turn, whatever that turn changed.
liveness_iterate_once(cfg, result, passes, limit) ==
    [result |-> liveness_pass(cfg, result), passes |-> passes + 1, terminated |-> TRUE]

\* The while loop, stopped after "limit" turns if it has not stopped by itself;
\* "passes" counts the turns taken, the last one (which changes nothing)
\* included.
RECURSIVE liveness_iterate(_, _, _, _)
liveness_iterate(cfg, result, passes, limit) ==
    LET turn(next) ==
            IF next = result
            THEN [result |-> result, passes |-> passes + 1, terminated |-> TRUE]
            ELSE IF passes + 1 >= limit
                 THEN [result |-> next, passes |-> passes + 1, terminated |-> FALSE]
                 ELSE liveness_iterate(cfg, next, passes + 1, limit)
    IN With(liveness_pass(cfg, result), turn)

\* The virtual registers a CFG names.
cfg_registers(cfg) ==
    UNION {terminator_reads(cfg.blocks[b].terminator)
           \cup UNION {Range(cfg.blocks[b].instructions[i].args)
                        \cup Range(cfg.blocks[b].instructions[i].destination) :
                           i \in 1..Len(cfg.blocks[b].instructions)} :
           b \in 1..Len(cfg.blocks)}

\* Each turn but the last adds a register to a live set of some block, so the
\* loop takes at most 2 * blocks * registers + 1 turns if it ends at all.
pass_limit(cfg) == 2 * Len(cfg.blocks) * Cardinality(cfg_registers(cfg)) + 1

analyse_run(cfg) == liveness_iterate(cfg, liveness_start(cfg), 0, pass_limit(cfg))

\* analyse: block index (id + 1) -> BlockLiveness.
analyse(cfg) == analyse_run(cfg).result

(***************************************************************************)
(* backend::regalloc                                                       *)
(***************************************************************************)
REGISTERS == <<"t0", "t1", "t2", "t3", "t4", "t5", "t6">>

LiveInterval(v, s, e) == [vreg |-> v, start |-> s, end |-> e]

\* intervals.entry(v).and_modify(..).or_insert((point, point)) for every v of
\* regs; only the registers live into a block may lower the start.
touch(intervals, regs, point, lowers_start) ==
    [v \in DOMAIN intervals \cup regs |->
        IF v \notin regs THEN intervals[v]
        ELSE IF v \notin DOMAIN intervals THEN [start |-> point, end |-> point]
        ELSE [start |-> IF lowers_start /\ point < intervals[v].start
                        THEN point ELSE intervals[v].start,
              end |-> Max(intervals[v].end, point)]]

\* The instructions of one block, one program point each.
intervals_of_instructions(acc, instructions) ==
    LET step(a, instr) ==
            [intervals |-> touch(a.intervals,
                                 Range(instr.destination) \cup Range(instr.args),
                                 a.program_point, FALSE),
             program_point |-> a.program_point + 1]
        F[i \in 0..Len(instructions)] ==
            IF i = 0 THEN acc ELSE With(F[i-1], LAMBDA a : step(a, instructions[i]))
    IN F[Len(instructions)]

\* One block of the loop of build_intervals: live_in, the instructions, the
\* terminator, live_out.
intervals_of_block(acc, block, block_liveness) ==
    LET close(a) ==
            [intervals |-> touch(touch(a.intervals, terminator_reads(block.terminator),
                                       a.program_point, FALSE),
                                 block_liveness.live_out, a.program_point, FALSE),
             program_point |-> a.program_point]
        open(a) == intervals_of_instructions(a, block.instructions)
    IN With(With([intervals |-> touch(acc.intervals, block_liveness.live_in,
                                      acc.program_point, TRUE),
                  program_point |-> acc.program_point],
                 open),
            close)

\* The map of build_intervals before it is turned into a vector.
interval_map(cfg, liveness) ==
    LET F[b \in 0..Len(cfg.blocks)] ==
            IF b = 0 THEN [intervals |-> <<>>, program_point |-> 0]
            ELSE With(F[b-1], LAMBDA a : intervals_of_block(a, cfg.blocks[b], liveness[b]))
    IN F[Len(cfg.blocks)].intervals

\* The vectors sort_by_key(start) may leave: the sort is stable and the map is
\* iterated in no fixed order, so intervals of equal start come in any order.
RECURSIVE sorted_by_start(_)
sorted_by_start(ivs) ==
    IF ivs = {} THEN {<<>>}
    ELSE UNION {{<<first>> \o rest : rest \in sorted_by_start(ivs \ {first})} :
                  first \in {i \in ivs : \A j \in ivs : i.start <= j.start}}

\* build_intervals: the vectors it may return.
build_intervals(cfg, liveness) ==
    LET vectors(m) == sorted_by_start({LiveInterval(v, m[v].start, m[v].end) : v \in DOMAIN m})
    IN With(interval_map(cfg, liveness), vectors)

\* active.sort_by_key(end): a stable sort, by insertion.
RECURSIVE sort_by_end(_)
sort_by_end(active) ==
    IF active = <<>> THEN <<>>
    ELSE LET insert(sorted, a) ==
                 LET before(e) == e.interval.end <= a.interval.end
                     after(e) == e.interval.end > a.interval.end
                 IN SelectSeq(sorted, before) \o <<a>> \o SelectSeq(sorted, after)
         IN insert(sort_by_end(SubSeq(active, 1, Len(active) - 1)), active[Len(active)])

\* The fallback without a free register: REGISTERS[vreg.id % 7].
modulo_register(vreg) == REGISTERS[(vreg % Len(REGISTERS)) + 1]

\* One turn of the loop of linear_scan that inserts nothing when no register is
\* free.
scan_interval_without_fallback(st, interval) ==
    IF st.free # <<>>
    THEN [allocation |-> (interval.vreg :> st.free[Len(st.free)]) @@ st.allocation,
          active |-> Append(st.active, [interval |-> interval, reg |-> st.free[Len(st.free)]]),
          free |-> SubSeq(st.free, 1, Len(st.free) - 1)]
    ELSE [allocation |-> st.allocation, active |-> st.active, free |-> st.free]

\* One turn of the loop of linear_scan that also expires the intervals that
\* end at the start of the interval at hand.
scan_interval_expiring_early(st, interval) ==
    LET expired(a) == a.interval.end <= interval.start
        kept(a) == ~expired(a)
        regs(as) == [i \in 1..Len(as) |-> as[i].reg]
        assign(active, free) ==
            IF free # <<>>
            THEN [allocation |-> (interval.vreg :> free[Len(free)]) @@ st.allocation,
                  active |-> Append(active, [interval |-> interval, reg |-> free[Len(free)]]),
                  free |-> SubSeq(free, 1, Len(free) - 1)]
            ELSE [allocation |-> (interval.vreg :> modulo_register(interval.vreg))
                                 @@ st.allocation,
                  active |-> active,
                  free |-> free]
    IN assign(sort_by_end(SelectSeq(st.active, kept)),
              st.free \o regs(SelectSeq(st.active, expired)))

\* One turn of the loop of linear_scan, for the interval at hand.
scan_interval(st, interval) ==
    LET expired(a) == a.interval.end < interval.start
        kept(a) == ~expired(a)
        regs(as) == [i \in 1..Len(as) |-> as[i].reg]
        assign(active, free) ==
            IF free # <<>>
            THEN [allocation |-> (interval.vreg :> free[Len(free)]) @@ st.allocation,
                  active |-> Append(active, [interval |-> interval, reg |-> free[Len(free)]]),
                  free |-> SubSeq(free, 1, Len(free) - 1)]
            ELSE IF active # <<>> /\ active[Len(active)].interval.end > interval.end
            THEN [allocation |-> (interval.vreg :> active[Len(active)].reg) @@ st.allocation,
                  active |-> Append(SubSeq(active, 1, Len(active) - 1),
                                    [interval |-> interval, reg |-> active[Len(active)].reg]),
                  free |-> free]
            ELSE [allocation |-> (interval.vreg :> modulo_register(interval.vreg))
                                 @@ st.allocation,
                  active |-> active,
                  free |-> free]
    IN assign(sort_by_end(SelectSeq(st.active, kept)),
              st.free \o regs(SelectSeq(st.active, expired)))

\* The three locals of linear_scan before its loop, and after the first n
\* intervals: free starts as REGISTERS reversed, so pop() hands out t0 first.
linear_scan_start ==
    [allocation |-> <<>>, active |-> <<>>,
     free |-> [k \in 1..Len(REGISTERS) |-> REGISTERS[Len(REGISTERS) + 1 - k]]]
linear_scan_after(intervals, n) ==
    LET F[i \in 0..n] ==
            IF i = 0 THEN linear_scan_start
            ELSE With(F[i-1], LAMBDA st : scan_interval(st, intervals[i]))
    IN F[n]

linear_scan(intervals) == linear_scan_after(intervals, Len(intervals)).allocation

\* allocate: the allocations it may return for a CFG.
allocate(cfg) ==
    LET scans(liveness) ==
            {linear_scan(intervals) : intervals \in build_intervals(cfg, liveness)}
    IN With(analyse(cfg), scans)

(***************************************************************************)
(* backend::generator and the code generation driver                       *)
(***************************************************************************)
\* The mnemonic of an op written as "<mnemonic> rd, rs1, rs2" or "<mnemonic> rd, rs".
mnemonic(op) ==
    CASE op = "Add" -> "add" [] op = "Sub" -> "sub" [] op = "Mul" -> "mul"
      [] op = "Div" -> "div" [] op = "Rem" -> "rem" [] op = "And" -> "and"
      [] op = "Or" -> "or"   [] op = "Xor" -> "xor" [] op = "Sll" -> "sll"
      [] op = "Srl" -> "srl" [] op = "Eq" -> "seq"  [] op = "Ne" -> "sne"
      [] op = "Lt" -> "slt"  [] op = "Le" -> "sle"  [] op = "Gt" -> "sgt"
      [] op = "Ge" -> "sge"  [] op = "Neg" -> "neg" [] OTHER -> "not"

\* The ops whose arm unwraps instr.destination, and the number of arguments an
\* arm indexes.
unwraps_destination(operation) ==
    operation.op \notin {"StoreWord", "Call", "Ret", "Label", "Jump", "BranchIfFalse"}
indexed_args(operation) ==
    CASE operation.op \in {"LoadImm", "LoadAddr", "MovArg", "Call", "Ret", "Label", "Jump"} -> 0
      [] operation.op \in {"LoadWord", "Mov", "Neg", "Not", "BranchIfFalse"} -> 1
      [] OTHER -> 2

\* An arm of the match panics when it unwraps a destination that is None,
\* indexes an argument that is not there or looks up a register the allocation
\* has no entry for.
emit_panics(instr, allocation) ==
    \/ unwraps_destination(instr.operation) /\ instr.destination = None
    \/ Len(instr.args) < indexed_args(instr.operation)
    \/ \E v \in Range(instr.destination) \cup Range(instr.args) : v \notin DOMAIN allocation
    \/ instr.operation.op = "Ret"
          /\ \E v \in Range(instr.operation.val) : v \notin DOMAIN allocation

\* The lines one instruction is written as; a line is the sequence of its
\* words.
emit_instruction(instr, allocation) ==
    LET o == instr.operation
        rd == allocation[instr.destination[1]]
        rs(i) == allocation[instr.args[i]]
    IN CASE o.op = "LoadImm" -> << <<"li", rd, o.value>> >>
         [] o.op = "LoadAddr" -> << <<"li", rd, "0x", o.addr>> >>
         [] o.op = "LoadWord" -> << <<"lw", rd, 0, rs(1)>> >>
         [] o.op = "StoreWord" -> << <<"sw", rs(1), 0, rs(2)>> >>
         [] o.op = "Mov" -> << <<"mv", rd, rs(1)>> >>
         [] o.op = "MovArg" -> << <<"mv", rd, "a", o.index>> >>
         [] o.op = "Call" ->
                [i \in 1..Len(instr.args) |-> <<"mv", "a", i - 1, rs(i)>>]
                \o << <<"call", o.name>> >>
                \o (IF instr.destination # None THEN << <<"mv", rd, "a", 0>> >> ELSE <<>>)
         [] o.op = "Ret" ->
                (IF o.val # None THEN << <<"mv", "a", 0, allocation[o.val[1]]>> >> ELSE <<>>)
                \o << <<"lw", "ra", 12, "sp">>, <<"addi", "sp", "sp", 16>>, <<"ret">>, <<>> >>
         [] o.op = "Label" -> << <<o.label, ":">> >>
         [] o.op = "Jump" -> << <<"j", o.label>> >>
         [] o.op = "BranchIfFalse" -> << <<"beqz", rs(1), o.label>> >>
         [] o.op \in {"Neg", "Not"} -> << <<mnemonic(o.op), rd, rs(1)>> >>
         [] OTHER -> << <<mnemonic(o.op), rd, rs(1), rs(2)>> >>

\* generator::generate: the text of one function, or a panic.
generator_generate(func_name, instructions, allocation) ==
    LET F[i \in 0..Len(instructions)] ==
            IF i = 0
            THEN << <<".section", ".text">>, <<".global", func_name>>, <<func_name, ":">>,
                    <<"addi", "sp", "sp", -16>>, <<"sw", "ra", 12, "sp">> >>
            ELSE With(F[i-1], LAMBDA out : out \o emit_instruction(instructions[i], allocation))
    IN IF \E i \in 1..Len(instructions) : emit_panics(instructions[i], allocation)
       THEN [panicked |-> TRUE, text |-> <<>>]
       ELSE [panicked |-> FALSE, text |-> F[Len(instructions)]]

\* The loop over the functions: allocate, flatten, generate, append.  The
\* results it may have, one for each choice of the allocations.
RECURSIVE backend_generate(_, _)
backend_generate(functions, assembly) ==
    IF functions = <<>> THEN {[panicked |-> FALSE, assembly |-> assembly]}
    ELSE UNION {
           LET next(out) ==
                   IF out.panicked THEN {[panicked |-> TRUE, assembly |-> <<>>]}
                   ELSE backend_generate(Tail(functions), assembly \o out.text)
           IN With(generator_generate(Head(functions).name, flatten(Head(functions).cfg),
                                      allocation), next) :
           allocation \in allocate(Head(functions).cfg)}

(***************************************************************************)
(* The source programs given to the compiler                               *)
(***************************************************************************)
\* The largest number of statements (nested ones included) in the body of main.
MaxStmts == 3

\* peripheral T at 0x400 { states: ..; initial: ..; registers u32 { CTRL at 0x0; } }
TimerDecl(states, initial) ==
    Peripheral("T", Some(1024), states, initial,
               <<RegisterBlock("U32", <<Register("CTRL", 0)>>)>>)

StandardPeripherals == <<TimerDecl(<<"Off", "On">>, "Off")>>

\* The peripheral declarations tried: the usual one, one that starts in On, and
\* one whose state list lacks On.
PeripheralDecls ==
    {StandardPeripherals,
     <<TimerDecl(<<"Off", "On">>, "On")>>,
     <<TimerDecl(<<"Off">>, "Off")>>}

\* fn enable() :: T<Off> -> T<On> { T.CTRL = 1; }      (leaf driver)
\* fn disable() :: T<On> -> T<Off> { T.CTRL = 0; }     (leaf driver)
\* fn xdrv() :: X<A> -> X<B> { }                       (X is not declared)
\* fn helper(n: i32) { let y = n; y = 1; enable(); }   (orchestration)
Library ==
    <<Function("enable", <<>>, Some(TypeState("T", "Off", "On")),
               <<PeripheralWrite("T", "CTRL", IntLit(1))>>),
      Function("disable", <<>>, Some(TypeState("T", "On", "Off")),
               <<PeripheralWrite("T", "CTRL", IntLit(0))>>),
      Function("xdrv", <<>>, Some(TypeState("X", "A", "B")), <<>>),
      Function("helper", <<<<"n", "I32">>>>, None,
               <<Let("y", Variable("n")), Assign("y", IntLit(1)),
                 ExprStmt(FnCall("enable", <<>>))>>)>>

\* The simple statements of main.
Atoms ==
    {ExprStmt(FnCall("enable", <<>>)),
     ExprStmt(FnCall("disable", <<>>)),
     ExprStmt(FnCall("xdrv", <<>>)),
     ExprStmt(FnCall("helper", <<IntLit(1)>>)),
     Let("x", FnCall("disable", <<>>)),
     Return(Variable("x"))}

Cond == IntLit(1)

\* The statement lists of exactly n statements, and the statements of size k.
RECURSIVE ListsOfSize(_)
RECURSIVE StmtsOfSize(_)
ListsOfSize(n) ==
    IF n = 0 THEN {<<>>}
    ELSE UNION {{<<st>> \o rest : st \in StmtsOfSize(k), rest \in ListsOfSize(n - k)} :
                k \in 1..n}

StmtsOfSize(k) ==
    (IF k = 1 THEN Atoms ELSE {})
    \cup {While(Cond, b) : b \in ListsOfSize(k - 1)}
    \cup UNION {{If(Cond, t, e) : t \in ListsOfSize(i), e \in ListsOfSize(k - 1 - i)} :
                i \in 0..(k - 1)}

Bodies(n) == UNION {ListsOfSize(m) : m \in 0..n}

MainSignatures ==
    {None, Some(TypeState("T", "Off", "On")), Some(TypeState("X", "A", "B"))}

MainBodies == Bodies(MaxStmts)

\* a + (b + (c + (d + (e + (f + (g + h)))))) over eight variables.
SumOfEight ==
    LET v(n) == Variable(n)
        add(l, r) == Binary("Add", l, r)
    IN add(v("a"), add(v("b"), add(v("c"), add(v("d"), add(v("e"), add(v("f"),
       add(v("g"), v("h"))))))))

\* a + (b + (c + (d + (e + f)))) over six variables.
SumOfSix ==
    LET v(n) == Variable(n)
        add(l, r) == Binary("Add", l, r)
    IN add(v("a"), add(v("b"), add(v("c"), add(v("d"), add(v("e"), v("f"))))))

\* Bodies of main written out one by one: both arms of an if return; eight
\* variables alive at once; a loop that counts; an assignment to a name never
\* declared; a let in a branch read after the if; a call of a function never
\* defined and a call with too few arguments; a driver called in the argument
\* of a call; a name declared again inside a branch and read after the if; six
\* variables alive at once.
SpecialBodies ==
    {<<If(Cond, <<Return(IntLit(0))>>, <<Return(IntLit(0))>>)>>,
     <<Let("a", IntLit(1)), Let("b", IntLit(2)), Let("c", IntLit(3)), Let("d", IntLit(4)),
       Let("e", IntLit(5)), Let("f", IntLit(6)), Return(SumOfSix)>>,
     <<Let("a", IntLit(0)), If(Cond, <<Let("a", IntLit(1))>>, <<>>), Return(Variable("a"))>>,
     <<ExprStmt(FnCall("helper", <<FnCall("disable", <<>>)>>))>>,
     <<Let("a", IntLit(1)), Let("b", IntLit(2)), Let("c", IntLit(3)), Let("d", IntLit(4)),
       Let("e", IntLit(5)), Let("f", IntLit(6)), Let("g", IntLit(7)), Let("h", IntLit(8)),
       Return(SumOfEight)>>,
     <<Let("a", IntLit(0)),
       While(Binary("Lt", Variable("a"), IntLit(3)),
             <<Assign("a", Binary("Add", Variable("a"), IntLit(1)))>>),
       Return(Variable("a"))>>,
     <<Assign("w", IntLit(1)), Return(Variable("w"))>>,
     <<Let("a", IntLit(0)), If(Cond, <<Let("b", Variable("a"))>>, <<>>),
       Assign("w", Variable("b"))>>,
     <<ExprStmt(FnCall("nofn", <<FnCall("helper", <<>>)>>)), Return(Variable("w"))>>}

\* fn spin() { while 1 { } }    (a second function with several blocks)
Spin == Function("spin", <<>>, None, <<While(Cond, <<>>)>>)

\* Every main with the standard declaration; the short ones with the others;
\* the special ones alone and followed by a second definition of main; two
\* programs in which main branches or loops and calls spin.
Programs ==
    {Program(ps, Append(Library, Function("main", <<>>, sig, body))) :
        ps \in {StandardPeripherals}, sig \in MainSignatures, body \in MainBodies}
    \cup
    {Program(ps, Append(Library, Function("main", <<>>, sig, body))) :
        ps \in PeripheralDecls, sig \in MainSignatures, body \in Bodies(1)}
    \cup
    {Program(StandardPeripherals,
             Library \o <<Function("main", <<>>, None, body)>> \o again) :
        body \in SpecialBodies, again \in {<<>>, <<Function("main", <<>>, None, <<>>)>>}}
    \cup
    {Program(StandardPeripherals,
             Library \o <<Spin, Function("main", <<>>, None, body)>>) :
        body \in {<<If(Cond, <<ExprStmt(FnCall("spin", <<>>))>>, <<>>)>>,
                  <<While(Cond, <<>>), ExprStmt(FnCall("spin", <<>>))>>}}

\* The orders in which a HashMap of peripheral names may be iterated.
KeyOrders(program) ==
    LET names == {program.peripherals[i].name : i \in 1..Len(program.peripherals)}
                 \cup {program.functions[i].signature[1].peripheral :
                          i \in {j \in 1..Len(program.functions) :
                                    program.functions[j].signature # None}}
        n == Cardinality(names)
    IN {o \in [1..n -> names] : \A i, j \in 1..n : o[i] = o[j] => i = j}

(***************************************************************************)
(* main(): the phases of one compilation, then a run of an accepted        *)
(* function over its control-flow graph                                    *)
(***************************************************************************)
NoExec == [fn |-> 0]

Init ==
    /\ prog \in Programs
    /\ pc = "semantic"
    /\ errors = <<>>
    /\ ir = <<>>
    /\ ts = [err |-> None, verified |-> 0]
    /\ ex = NoExec
    /\ asm = <<>>
    /\ destination = None

Checked(errs) ==
    /\ errors' = errs
    /\ pc' = IF errs = <<>> THEN "lower" ELSE "exit1"

SemanticCheck ==
    /\ pc = "semantic"
    /\ Checked(semantic_check(prog))
    /\ UNCHANGED <<prog, ir, ts, ex, asm, destination>>

Lowered(l) ==
    /\ ir' = l.functions
    /\ pc' = IF l.panicked THEN "panic" ELSE "typestate"

Lower ==
    /\ pc = "lower"
    /\ Lowered(lower(prog))
    /\ UNCHANGED <<prog, errors, ts, ex, asm, destination>>

\* The result of the typestate check recorded and code generation entered
\* whatever the result is.
Verified_ungated(r) ==
    /\ ts' = r
    /\ pc' = "generate"

Verified(r) ==
    /\ ts' = r
    /\ pc' = IF r.err = None THEN "generate" ELSE "exit1"

TypestateCheck ==
    /\ pc = "typestate"
    /\ \E order \in KeyOrders(prog) : Verified(typestate_check(prog, ir, order))
    /\ UNCHANGED <<prog, errors, ir, ex, asm, destination>>

\* backend::generate: the assembly of all functions, or a panic in an arm of the
\* emitter.
Generated(r) ==
    /\ asm' = r.assembly
    /\ pc' = IF r.panicked THEN "panic" ELSE "write"

Generate ==
    /\ pc = "generate"
    /\ \E r \in backend_generate(ir, <<>>) : Generated(r)
    /\ UNCHANGED <<prog, errors, ir, ts, ex, destination>>

\* fs::write puts the assembly in the destination file and main returns.
Write ==
    /\ pc = "write"
    /\ destination' = Some(asm)
    /\ pc' = "done"
    /\ UNCHANGED <<prog, errors, ir, ts, ex, asm>>

\* fs::write cannot open the destination: the message, then process::exit(1).
WriteFails ==
    /\ pc = "write"
    /\ pc' = "write_failed"
    /\ UNCHANGED <<prog, errors, ir, ts, ex, asm, destination>>

\* The class of function i and the environment its body is verified from.
KindOf(i) == classify_function(prog.functions[i], ir[i].cfg, build_signature_map(prog))
EntryEnv(i) ==
    IF KindOf(i) = "CompositeDriver"
    THEN composite_entry_env(prog.functions[i], prog.peripherals)
    ELSE init_state_env(prog.peripherals)

\* The frame of a function that starts to run: entry block, first instruction.
\* "seen" holds the blocks the frame has entered, "sp" the position in the
\* function's flattened stream.
Frame(i) ==
    [fn |-> i, block |-> ir[i].cfg.entry, idx |-> 1, seen |-> {ir[i].cfg.entry}, sp |-> 1]

\* A verified function of an accepted program starts to run, the peripherals in
\* the states its verification starts from.  "cyc" records that some frame has
\* entered a block a second time.
ExecBegin ==
    /\ pc = "generate"
    /\ \E i \in 1..Len(ir) :
          /\ KindOf(i) # "LeafDriver"
          /\ ex' = [fn |-> i, block |-> Frame(i).block, idx |-> 1, seen |-> Frame(i).seen,
                    sp |-> Frame(i).sp, hw |-> EntryEnv(i), stack |-> <<>>, cyc |-> FALSE]
    /\ pc' = "run"
    /\ UNCHANGED <<prog, errors, ir, ts, asm, destination>>

ExecBlock == Block(ir[ex.fn].cfg, ex.block)
ExecStream == flatten(ir[ex.fn].cfg)
AtInstruction == pc = "run" /\ ex.idx <= Len(ExecBlock.instructions)
AtTerminator == pc = "run" /\ ex.idx > Len(ExecBlock.instructions)
FuncIndex(name) == CHOOSE j \in 1..Len(ir) : ir[j].name = name

\* Call(name): a signed callee is a driver and leaves its peripheral in its
\* declared output state; an unsigned callee runs in a new frame.
ExecCall(name, signatures) ==
    IF name \in DOMAIN signatures
    THEN ex' = [ex EXCEPT !.idx = @ + 1,
                          !.sp = StreamNext(ExecStream, @, FALSE),
                          !.hw = (signatures[name].peripheral :>
                                      signatures[name].output_state) @@ @]
    ELSE ex' = [ex EXCEPT !.fn = FuncIndex(name),
                          !.block = Frame(FuncIndex(name)).block,
                          !.idx = 1,
                          !.seen = Frame(FuncIndex(name)).seen,
                          !.sp = Frame(FuncIndex(name)).sp,
                          !.stack = Append(@, [fn |-> ex.fn, block |-> ex.block,
                                               idx |-> ex.idx + 1, seen |-> ex.seen,
                                               sp |-> StreamNext(ExecStream, ex.sp, FALSE)])]

\* The next machine instruction of the block runs.
ExecInstruction ==
    /\ AtInstruction
    /\ IF ExecBlock.instructions[ex.idx].operation.op = "Call"
       THEN ExecCall(ExecBlock.instructions[ex.idx].operation.name, build_signature_map(prog))
       ELSE ex' = [ex EXCEPT !.idx = @ + 1, !.sp = StreamNext(ExecStream, @, FALSE)]
    /\ UNCHANGED <<prog, pc, errors, ir, ts, asm, destination>>

\* Control enters block "next" of the running function; the machine makes the
\* transfer its stream prescribes for a condition register that is zero or not.
Enter(next, zero) ==
    ex' = [ex EXCEPT !.block = next, !.idx = 1, !.seen = @ \cup {next},
                     !.sp = SkipLabel(ExecStream, TransferTo(ExecStream, @, zero)),
                     !.cyc = @ \/ next \in ex.seen]

\* Return: back to the caller's frame, or the run of the function is over.
ExecReturn ==
    IF ex.stack = <<>>
    THEN ex' = [ex EXCEPT !.sp = StreamNext(ExecStream, @, FALSE)] /\ pc' = "returned"
    ELSE /\ ex' = [ex EXCEPT !.fn = ex.stack[Len(ex.stack)].fn,
                             !.block = ex.stack[Len(ex.stack)].block,
                             !.idx = ex.stack[Len(ex.stack)].idx,
                             !.seen = ex.stack[Len(ex.stack)].seen,
                             !.sp = ex.stack[Len(ex.stack)].sp,
                             !.stack = SubSeq(@, 1, Len(@) - 1)]
         /\ pc' = pc

\* The terminator transfers control; a branch goes either way: to its
\* else-block when the condition register holds zero, else to its then-block.
ExecTerminator ==
    /\ AtTerminator
    /\ CASE ExecBlock.terminator.k \in {"Jump", "Fallthrough"} ->
                Enter(ExecBlock.terminator.target, FALSE) /\ pc' = pc
         [] ExecBlock.terminator.k = "Branch" ->
                /\ \E zero \in BOOLEAN :
                      Enter(IF zero THEN ExecBlock.terminator.else_block
                            ELSE ExecBlock.terminator.then_block, zero)
                /\ pc' = pc
         [] OTHER -> ExecReturn
    /\ UNCHANGED <<prog, errors, ir, ts, asm, destination>>

Next ==
    \/ SemanticCheck
    \/ Lower
    \/ TypestateCheck
    \/ Generate
    \/ Write
    \/ WriteFails
    \/ ExecBegin
    \/ ExecInstruction
    \/ ExecTerminator

Spec == Init /\ [][Next]_vars

(***************************************************************************)
(* Claims                                                                  *)
(***************************************************************************)
\* The blocks a terminator names.
Targets(term) ==
    CASE term.k \in {"Jump", "Fallthrough"} -> {term.target}
      [] term.k = "Branch" -> {term.then_block, term.else_block}
      [] OTHER -> {}

WellFormed(cfg) ==
    /\ cfg.entry = 0
    /\ \A b \in 1..Len(cfg.blocks) :
          /\ cfg.blocks[b].id = b - 1
          /\ cfg.blocks[b].terminator # TNone
          /\ Targets(cfg.blocks[b].terminator) \subseteq 0..(Len(cfg.blocks) - 1)

\* C10: after lowering, every block of every CFG has a terminator other than
\* None, every Jump/Branch/Fallthrough target is the id of a block of the same
\* CFG, the id of a block is its index and the entry block is block 0.
C10_WellFormedCFG == \A i \in 1..Len(ir) : WellFormed(ir[i].cfg)

\* A lowered main with an if inside a while: seven blocks, a back-edge, and
\* every block terminated.
C10_Witness ==
    /\ Len(ir) = Len(prog.functions)
    /\ Len(ir[Len(ir)].cfg.blocks) >= 7
    /\ \E b \in 1..Len(ir[Len(ir)].cfg.blocks) :
          /\ ir[Len(ir)].cfg.blocks[b].terminator.k = "Jump"
          /\ ir[Len(ir)].cfg.blocks[b].terminator.target < b - 1
    /\ WellFormed(ir[Len(ir)].cfg)

\* The signed functions of the program, and the program accepted by the verifier.
Signatures == build_signature_map(prog)
Accepted == pc \in {"generate", "run", "returned"}

\* The instruction about to run is the call of a driver (a signed function).
CurrentInstr == ExecBlock.instructions[ex.idx]
AtDriverCall ==
    /\ AtInstruction
    /\ CurrentInstr.operation.op = "Call"
    /\ CurrentInstr.operation.name \in DOMAIN Signatures

\* The driver about to be called finds its peripheral in its declared input state.
CallSafe ==
    LET sig == Signatures[CurrentInstr.operation.name]
    IN /\ sig.peripheral \in DOMAIN ex.hw
       /\ ex.hw[sig.peripheral] = sig.input_state

\* The numbers of driver calls in the two streams of a CFG.
DriverCallInstrs(cfg) ==
    UNION {{<<b, i>> : i \in {j \in 1..Len(cfg.blocks[b].instructions) :
                                /\ cfg.blocks[b].instructions[j].operation.op = "Call"
                                /\ cfg.blocks[b].instructions[j].operation.name
                                       \in DOMAIN Signatures}} :
              b \in 1..Len(cfg.blocks)}
DriverCallStmts(cfg) ==
    UNION {{<<b, i>> : i \in {j \in 1..Len(cfg.blocks[b].statements) :
                                cfg.blocks[b].statements[j].k = "PeripheralDriverCall"}} :
              b \in 1..Len(cfg.blocks)}

\* Every call of a driver in the program is a driver-call statement.
CallsAreStatements ==
    \A i \in 1..Len(ir) :
        Cardinality(DriverCallInstrs(ir[i].cfg)) = Cardinality(DriverCallStmts(ir[i].cfg))

\* The verified function whose run this is.
RootFn == IF ex.stack = <<>> THEN ex.fn ELSE ex.stack[1].fn

\* Function f calls drivers only: no unsigned function is called.
DriversOnly(f) ==
    \A b \in 1..Len(ir[f].cfg.blocks) :
        \A i \in 1..Len(ir[f].cfg.blocks[b].instructions) :
            ir[f].cfg.blocks[b].instructions[i].operation.op = "Call"
                => ir[f].cfg.blocks[b].instructions[i].operation.name \in DOMAIN Signatures

CallsDriversOnly == pc \in {"run", "returned"} /\ DriversOnly(RootFn)

\* The environment the verifier derives for function i.
DerivedEnv(i) ==
    verify_function(prog.functions[i], ir[i].cfg, prog.peripherals, Signatures,
                    CHOOSE order \in KeyOrders(prog) : TRUE).env

\* C1: in an accepted program no run of a verified function, whatever the
\* number of times it goes round a while loop, reaches a driver-call statement
\* while the callee's peripheral is not in the callee's declared input state,
\* and no branch or loop leaves a choice of final states: the run of the
\* function ends with every peripheral in the state the verifier derived.
\* Stated for the functions all of whose calls are driver-call statements.
C1_Sound ==
    (Accepted /\ CallsAreStatements /\ CallsDriversOnly)
        => /\ AtDriverCall => CallSafe
           /\ (pc = "returned") =>
                 \A p \in DOMAIN DerivedEnv(RootFn) : ex.hw[p] = DerivedEnv(RootFn)[p]

\* The states of the peripherals after the driver calls of a block.
BlockEffect(block, hw) ==
    LET call(h, instr) ==
            IF instr.operation.op = "Call" /\ instr.operation.name \in DOMAIN Signatures
            THEN (Signatures[instr.operation.name].peripheral :>
                      Signatures[instr.operation.name].output_state) @@ h
            ELSE h
        E[i \in 0..Len(block.instructions)] ==
            IF i = 0 THEN hw ELSE call(E[i-1], block.instructions[i])
    IN E[Len(block.instructions)]

\* The pairs <<block, states on entry>> of the acyclic paths that start at
\* block b in states hw, "seen" being the blocks already on the path.
RECURSIVE PathStates(_, _, _, _)
PathStates(cfg, b, hw, seen) ==
    {<<b, hw>>} \cup
    UNION {PathStates(cfg, t, BlockEffect(Block(cfg, b), hw), seen \cup {b}) :
              t \in Targets(Block(cfg, b).terminator) \ (seen \cup {b})}

Predecessors(cfg, b) ==
    {a \in 0..(Len(cfg.blocks) - 1) : b \in Targets(Block(cfg, a).terminator)}

\* Any two acyclic paths from the entry of function f to one merge block carry
\* the same state for every peripheral.
MergeAgree(f) ==
    LET agree(reached) ==
            \A x \in reached : \A y \in reached :
                (x[1] = y[1] /\ Cardinality(Predecessors(ir[f].cfg, x[1])) > 1)
                    => x[2] = y[2]
    IN agree(PathStates(ir[f].cfg, ir[f].cfg.entry, EntryEnv(f), {}))

C2_Sites == (Accepted /\ CallsDriversOnly /\ AtDriverCall /\ ~ex.cyc) => CallSafe
C2_Merge ==
    pc = "generate" =>
        \A f \in 1..Len(ir) : (KindOf(f) # "LeafDriver" /\ DriversOnly(f)) => MergeAgree(f)

\* C2: in an accepted program, at every call of a signed function in a verified
\* function, whatever the position of the call in the body, the callee's
\* peripheral is in the callee's declared input state along every acyclic path
\* from the entry of the function, and two acyclic paths that reach the same
\* merge block carry the same state for every peripheral.
C2_AcyclicSound == C2_Sites /\ C2_Merge

\* Function f is an Orchestration function whose body is a sequence of
\* driver-call statements on declared peripherals.
StraightLine(f) ==
    /\ prog.functions[f].signature = None
    /\ prog.functions[f].body # <<>>
    /\ \A n \in 1..Len(prog.functions[f].body) :
          /\ prog.functions[f].body[n].k = "Expr"
          /\ prog.functions[f].body[n].expr.k = "FnCall"
          /\ prog.functions[f].body[n].expr.name \in DOMAIN Signatures
          /\ Signatures[prog.functions[f].body[n].expr.name].peripheral
                 \in DOMAIN init_state_env(prog.peripherals)

\* The chain of the calls of such a body, read off the source: the state left
\* by the calls before call n, and the first call whose input state differs.
ChainState(body, n) ==
    LET S[k \in 0..n] ==
            IF k = 0 THEN init_state_env(prog.peripherals)
            ELSE [S[k-1] EXCEPT ![Signatures[body[k].expr.name].peripheral] =
                                     Signatures[body[k].expr.name].output_state]
    IN S[n]
Offending(body) ==
    {n \in 1..Len(body) :
        ChainState(body, n - 1)[Signatures[body[n].expr.name].peripheral]
            # Signatures[body[n].expr.name].input_state}
ChainError(f) ==
    LET body == prog.functions[f].body
        first(bad) ==
            IF bad = {} THEN None
            ELSE LET n == CHOOSE m \in bad : \A k \in bad : m <= k
                     sig == Signatures[body[n].expr.name]
                 IN Some(InvalidTransition(body[n].expr.name, prog.functions[f].name,
                                           sig.peripheral, sig.input_state,
                                           ChainState(body, n - 1)[sig.peripheral]))
    IN first(Offending(body))

\* C3: an Orchestration function whose body is a straight-line sequence of
\* driver-call statements is accepted exactly when the input state of each call
\* is the state its peripheral was left in by the calls before it, starting
\* from the initial state; otherwise the error is InvalidTransition for the
\* first offending call, with that callee, its peripheral, expected = the
\* declared input state and actual = the current state.  The error is the
\* result of verify_function and, when the function is the last one the check
\* came to, the result of the check.
C3_StraightLine ==
    /\ pc = "typestate" =>
          \A f \in 1..Len(ir) : StraightLine(f) =>
              \A order \in KeyOrders(prog) :
                  verify_function(prog.functions[f], ir[f].cfg, prog.peripherals,
                                  Signatures, order).err = ChainError(f)
    /\ (pc \in {"generate", "exit1"} /\ ts.verified > 0 /\ StraightLine(ts.verified)) =>
          ts.err = IF ChainError(ts.verified) = None THEN None
                   ELSE Some(display(ChainError(ts.verified)[1]))

\* main = enable(); disable(); disable(); is rejected at its third call.
C3_Witness ==
    /\ pc = "exit1"
    /\ ts.verified = Len(prog.functions)
    /\ StraightLine(ts.verified)
    /\ Offending(prog.functions[ts.verified].body) = {3}
    /\ ts.err = Some(display(InvalidTransition("disable", "main", "T", "On", "Off")))

\* The signature of a signed function f, and the walk of its body from the
\* environment a CompositeDriver starts from.
SigOf(f) == prog.functions[f].signature[1]
CompositeWalk(f, order) ==
    verify_cfg(ir[f].cfg, composite_entry_env(prog.functions[f], prog.peripherals),
               Signatures, prog.functions[f].name, order)

\* The walk of a CompositeDriver starts with its peripheral in its input state.
C4_Entry ==
    pc = "typestate" =>
        \A f \in 1..Len(ir) : KindOf(f) = "CompositeDriver" =>
            composite_entry_env(prog.functions[f], prog.peripherals)[SigOf(f).peripheral]
                = SigOf(f).input_state

\* A walk without error that derives another state than the declared output
\* state is rejected with WrongExitState(expected = declared, actual = derived).
C4_WrongExit ==
    pc = "typestate" =>
        \A f \in 1..Len(ir) : KindOf(f) = "CompositeDriver" =>
            \A order \in KeyOrders(prog) :
                LET exit(w) ==
                        (w.err = None /\ w.env[SigOf(f).peripheral] # SigOf(f).output_state)
                            => verify_function(prog.functions[f], ir[f].cfg, prog.peripherals,
                                               Signatures, order).err
                                 = Some(WrongExitState(prog.functions[f].name,
                                                       SigOf(f).peripheral,
                                                       SigOf(f).output_state,
                                                       w.env[SigOf(f).peripheral]))
                IN exit(CompositeWalk(f, order))

\* The run of an accepted CompositeDriver along an acyclic path ends with its
\* peripheral in the declared output state.
C4_Exit ==
    (Accepted /\ pc = "returned" /\ ~ex.cyc /\ KindOf(RootFn) = "CompositeDriver")
        => /\ SigOf(RootFn).peripheral \in DOMAIN ex.hw
           /\ ex.hw[SigOf(RootFn).peripheral] = SigOf(RootFn).output_state

\* C4: the walk of a CompositeDriver starts with Sigma[signature.peripheral] =
\* signature.input_state; a walk without error whose derived state differs from
\* signature.output_state is rejected with WrongExitState (expected = declared
\* output state, actual = derived state); and in an accepted program every
\* acyclic path from the entry of a CompositeDriver to a return ends with
\* signature.peripheral in signature.output_state.
C4_Composite == C4_Entry /\ C4_WrongExit /\ C4_Exit

\* A call statement of a signed function on a declared peripheral.
IsDriverCallStmt(stmt) ==
    /\ stmt.k = "Expr"
    /\ stmt.expr.k = "FnCall"
    /\ stmt.expr.name \in DOMAIN Signatures
    /\ Signatures[stmt.expr.name].peripheral \in DOMAIN init_state_env(prog.peripherals)

\* Function f is  if c { g(); }  h();  where g takes its peripheral from its
\* initial state to another state, which h requires.
IfThenRequire(f) ==
    LET body == prog.functions[f].body
        shape(g, h) ==
            /\ g.peripheral = h.peripheral
            /\ init_state_env(prog.peripherals)[g.peripheral] = g.input_state
            /\ g.output_state # g.input_state
            /\ h.input_state = g.output_state
    IN /\ prog.functions[f].signature = None
       /\ Len(body) = 2
       /\ body[1].k = "If"
       /\ Len(body[1].then_block) = 1
       /\ body[1].else_block = <<>>
       /\ IsDriverCallStmt(body[1].then_block[1])
       /\ IsDriverCallStmt(body[2])
       /\ shape(Signatures[body[1].then_block[1].expr.name], Signatures[body[2].expr.name])

\* C5: an if without else whose then-branch performs a driver transition on T,
\* followed by a driver call that requires the resulting state, is rejected
\* with BranchStateMismatch on T, then-state = the resulting state (On) and
\* else-state = the state before the if (Off).
C5_BranchMismatch ==
    (pc \in {"generate", "exit1"} /\ ts.verified > 0 /\ IfThenRequire(ts.verified)) =>
        LET g == Signatures[prog.functions[ts.verified].body[1].then_block[1].expr.name]
        IN ts.err = Some(display(BranchStateMismatch(prog.functions[ts.verified].name,
                                                     g.peripheral, g.output_state,
                                                     g.input_state)))

\* The functions called by the code of function f, whatever the position of
\* the call in the body: the names of its Call instructions.
Callees(f) ==
    UNION {{ir[f].cfg.blocks[b].instructions[i].operation.name :
               i \in {j \in 1..Len(ir[f].cfg.blocks[b].instructions) :
                         ir[f].cfg.blocks[b].instructions[j].operation.op = "Call"}} :
              b \in 1..Len(ir[f].cfg.blocks)}

\* f calls a signed function, directly or through at most n unsigned callees.
RECURSIVE CallsSigned(_, _)
CallsSigned(f, n) ==
    \E name \in Callees(f) :
        \/ name \in DOMAIN Signatures
        \/ /\ n > 0
           /\ \E g \in 1..Len(ir) : ir[g].name = name /\ CallsSigned(g, n - 1)

\* C6: a function with a signature that calls a signed function, directly or
\* through unsigned callees and in any expression position, is classified
\* CompositeDriver; a signed function that calls no signed function is the
\* only kind of LeafDriver.
C6_Classification ==
    pc = "typestate" =>
        \A f \in 1..Len(ir) : prog.functions[f].signature # None =>
            KindOf(f) = IF CallsSigned(f, Len(ir)) THEN "CompositeDriver" ELSE "LeafDriver"

\* The typestate check has returned.
TypestateDone == pc = "generate" \/ (pc = "exit1" /\ errors = <<>>)

\* The result of verify_function for function f.
VerifyErr(f, order) ==
    verify_function(prog.functions[f], ir[f].cfg, prog.peripherals, Signatures, order).err

\* The functions with a typestate error (whether a function has one does not
\* depend on the iteration order).
Failing == {f \in 1..Len(ir) : \E order \in KeyOrders(prog) : VerifyErr(f, order) # None}

Declared(p) == \E i \in 1..Len(prog.peripherals) : prog.peripherals[i].name = p
StatesOf(p) ==
    UNION {Range(prog.peripherals[i].states) :
              i \in {j \in 1..Len(prog.peripherals) : prog.peripherals[j].name = p}}

\* Every name of the signature of function f resolves.
SignatureResolves(f) ==
    /\ Declared(SigOf(f).peripheral)
    /\ SigOf(f).input_state \in StatesOf(SigOf(f).peripheral)
    /\ SigOf(f).output_state \in StatesOf(SigOf(f).peripheral)

\* Environment env maps declared peripherals to declared states.
EnvResolves(env) == \A p \in DOMAIN env : Declared(p) /\ env[p] \in StatesOf(p)

\* C8: in a program that passes the semantic and the typestate check the
\* peripheral, input state and output state of every signature resolve, every
\* initial state belongs to its peripheral's state list, and the environments
\* of the verifier (the one each verified function starts from and the one it
\* ends in) give every peripheral one of its declared states.
C8_NamesResolve ==
    pc = "generate" =>
        /\ \A f \in 1..Len(ir) : prog.functions[f].signature # None => SignatureResolves(f)
        /\ \A i \in 1..Len(prog.peripherals) :
              prog.peripherals[i].initial \in Range(prog.peripherals[i].states)
        /\ \A f \in 1..Len(ir) : KindOf(f) # "LeafDriver" =>
              EnvResolves(EntryEnv(f)) /\ EnvResolves(DerivedEnv(f))

\* The result of verifying f is UnknownPeripheral for f, naming a peripheral
\* that is not declared.
ReportsUnknown(f, r) ==
    /\ r.err # None
    /\ r.err[1].kind = "UnknownPeripheral"
    /\ r.err[1].func_name = prog.functions[f].name
    /\ ~Declared(r.err[1].name)

\* The walk of f has come to a driver call on an undeclared peripheral.
ReachesUndeclared(r) == \E p \in r.touched : ~Declared(p)

\* C9: when the walk of a verified function, Orchestration or CompositeDriver,
\* comes to a driver call whose signature names an undeclared peripheral, the
\* result is UnknownPeripheral for that function and that peripheral; so also
\* for a CompositeDriver whose own signature names the undeclared peripheral.
C9_UnknownPeripheral ==
    pc = "typestate" =>
        \A f \in 1..Len(ir) : \A order \in KeyOrders(prog) :
            LET unknown(r) == ReachesUndeclared(r) => ReportsUnknown(f, r)
            IN unknown(verify_function(prog.functions[f], ir[f].cfg, prog.peripherals,
                                       Signatures, order))

\* The blocks reached from the blocks of "from" by following terminator targets.
RECURSIVE ReachableFrom(_, _)
ReachableFrom(cfg, from) ==
    LET more(next) == IF next \subseteq from THEN from ELSE ReachableFrom(cfg, from \cup next)
    IN more(UNION {Targets(Block(cfg, b).terminator) : b \in from})

Orphans(cfg) == (0..(Len(cfg.blocks) - 1)) \ ReachableFrom(cfg, {cfg.entry})

\* C11: after lowering, every block of every CFG is reached from block 0 by
\* following terminator targets (no orphan block), also when both branches of
\* an if end in return.
C11_NoOrphans == \A i \in 1..Len(ir) : Orphans(ir[i].cfg) = {}

\* The source-level rules of names, written from the language and not from the
\* checker: a variable is used inside the scope of a parameter or of an earlier
\* let, a scope ending with the branch or loop body the let stands in; a call
\* names a function defined once with as many parameters as arguments passed.
RECURSIVE ExprResolved(_, _, _)
ExprResolved(expr, scope, functions) ==
    CASE expr.k = "Variable" -> expr.name \in scope
      [] expr.k = "Binary" -> /\ ExprResolved(expr.left, scope, functions)
                              /\ ExprResolved(expr.right, scope, functions)
      [] expr.k = "Unary" -> ExprResolved(expr.operand, scope, functions)
      [] expr.k = "FnCall" ->
            /\ \E i \in 1..Len(functions) :
                  functions[i].name = expr.name /\ Len(functions[i].args) = Len(expr.args)
            /\ \A i \in 1..Len(expr.args) : ExprResolved(expr.args[i], scope, functions)
      [] OTHER -> TRUE

RECURSIVE BodyResolved(_, _, _)
BodyResolved(stmts, scope, functions) ==
    IF stmts = <<>> THEN TRUE
    ELSE LET st == Head(stmts)
         IN CASE st.k = "Let" ->
                    /\ ExprResolved(st.value, scope, functions)
                    /\ BodyResolved(Tail(stmts), scope \cup {st.var_name}, functions)
              [] st.k = "Assign" ->
                    /\ st.var_name \in scope
                    /\ ExprResolved(st.value, scope, functions)
                    /\ BodyResolved(Tail(stmts), scope, functions)
              [] st.k = "If" ->
                    /\ ExprResolved(st.cond, scope, functions)
                    /\ BodyResolved(st.then_block, scope, functions)
                    /\ BodyResolved(st.else_block, scope, functions)
                    /\ BodyResolved(Tail(stmts), scope, functions)
              [] st.k = "While" ->
                    /\ ExprResolved(st.cond, scope, functions)
                    /\ BodyResolved(st.body, scope, functions)
                    /\ BodyResolved(Tail(stmts), scope, functions)
              [] st.k = "Expr" ->
                    /\ ExprResolved(st.expr, scope, functions)
                    /\ BodyResolved(Tail(stmts), scope, functions)
              [] st.k = "Return" ->
                    /\ ExprResolved(st.expr, scope, functions)
                    /\ BodyResolved(Tail(stmts), scope, functions)
              [] OTHER ->
                    /\ ExprResolved(st.value, scope, functions)
                    /\ BodyResolved(Tail(stmts), scope, functions)

ProgramResolved(program) ==
    \A i \in 1..Len(program.functions) :
        BodyResolved(program.functions[i].body,
                     {program.functions[i].args[j][1] :
                         j \in 1..Len(program.functions[i].args)},
                     program.functions)

\* C12: when the semantic check returns no errors, every variable use (the
\* target of an assign included) lies in the scope of a parameter or an earlier
\* let, every call names a defined function with matching arity, and lowering
\* does not fail on an unbound name.
C12_NoErrorsResolved ==
    (pc # "semantic" /\ errors = <<>>) => (ProgramResolved(prog) /\ pc # "panic")

\* Lowered without errors: a counter declared, read in the loop condition,
\* assigned in the loop body and returned.
C12_Witness ==
    /\ pc = "typestate"
    /\ errors = <<>>
    /\ \E i \in 1..Len(prog.functions) :
          /\ Len(prog.functions[i].body) = 3
          /\ prog.functions[i].body[1].k = "Let"
          /\ prog.functions[i].body[2].k = "While"
          /\ prog.functions[i].body[2].cond.k = "Binary"
          /\ prog.functions[i].body[2].body[1].k = "Assign"
          /\ prog.functions[i].body[3] = Return(Variable(prog.functions[i].body[1].var_name))

\* The name and arity errors of an expression and of a statement list, listed
\* in the order of their places in the source text: the name of a call before
\* its arguments, the target of an assignment before its value, the condition
\* of an if before its branches.
RECURSIVE ExprFaults(_, _, _, _)
ExprFaults(expr, f, scope, arities) ==
    CASE expr.k = "Variable" ->
            IF expr.name \in scope THEN <<>> ELSE <<UndefinedVariable(f, expr.name)>>
      [] expr.k = "Binary" ->
            ExprFaults(expr.left, f, scope, arities) \o ExprFaults(expr.right, f, scope, arities)
      [] expr.k = "Unary" -> ExprFaults(expr.operand, f, scope, arities)
      [] expr.k = "FnCall" ->
            LET args[i \in 0..Len(expr.args)] ==
                    IF i = 0 THEN <<>>
                    ELSE args[i-1] \o ExprFaults(expr.args[i], f, scope, arities)
            IN (IF expr.name \notin DOMAIN arities
                THEN <<UndefinedFunction(expr.name, f)>>
                ELSE IF arities[expr.name] # Len(expr.args)
                     THEN <<ArityMismatch(expr.name, arities[expr.name], Len(expr.args), f)>>
                     ELSE <<>>)
               \o args[Len(expr.args)]
      [] OTHER -> <<>>

RECURSIVE BodyFaults(_, _, _, _)
BodyFaults(stmts, f, scope, arities) ==
    IF stmts = <<>> THEN <<>>
    ELSE LET st == Head(stmts)
             rest(sc) == BodyFaults(Tail(stmts), f, sc, arities)
         IN CASE st.k = "Let" ->
                    ExprFaults(st.value, f, scope, arities) \o rest(scope \cup {st.var_name})
              [] st.k = "Assign" ->
                    (IF st.var_name \in scope THEN <<>>
                     ELSE <<UndefinedVariable(f, st.var_name)>>)
                    \o ExprFaults(st.value, f, scope, arities) \o rest(scope)
              [] st.k = "If" ->
                    ExprFaults(st.cond, f, scope, arities)
                    \o BodyFaults(st.then_block, f, scope, arities)
                    \o BodyFaults(st.else_block, f, scope, arities) \o rest(scope)
              [] st.k = "While" ->
                    ExprFaults(st.cond, f, scope, arities)
                    \o BodyFaults(st.body, f, scope, arities) \o rest(scope)
              [] st.k \in {"Expr", "Return"} ->
                    ExprFaults(st.expr, f, scope, arities) \o rest(scope)
              [] OTHER -> ExprFaults(st.value, f, scope, arities) \o rest(scope)

\* The faults of a program in source order: function after function, a second
\* definition of a name reported where that definition stands.
FaultsInSourceOrder(program) ==
    LET fs == program.functions
        F[i \in 0..Len(fs)] ==
            IF i = 0 THEN <<>>
            ELSE F[i-1]
                 \o (IF \E j \in 1..(i-1) : fs[j].name = fs[i].name
                     THEN <<DuplicateFunction(fs[i].name)>> ELSE <<>>)
                 \o BodyFaults(fs[i].body, fs[i].name,
                               {fs[i].args[j][1] : j \in 1..Len(fs[i].args)},
                               func_arities(fs))
    IN F[Len(fs)]

Occurrences(seq, e) == Cardinality({i \in 1..Len(seq) : seq[i] = e})

\* C13: the semantic check reports every undefined-variable, undefined-function,
\* arity-mismatch and duplicate-function error of the program, and the list it
\* returns has them in source order whatever their kinds.
C13_SourceOrder == pc # "semantic" => errors = FaultsInSourceOrder(prog)

\* The part of C13 that does not speak of order: each fault is reported as
\* often as it occurs, and nothing else is.
C13_AllReported ==
    pc # "semantic" =>
        /\ Len(errors) = Len(FaultsInSourceOrder(prog))
        /\ \A i \in 1..Len(errors) :
              Occurrences(errors, errors[i]) = Occurrences(FaultsInSourceOrder(prog), errors[i])

\* The names in scope before statement j of a function body: the parameters
\* and the lets that stand before it at the top level of the body.
ScopeBefore(func, j) ==
    {func.args[i][1] : i \in 1..Len(func.args)}
    \cup {func.body[i].var_name : i \in {m \in 1..(j - 1) : func.body[m].k = "Let"}}

\* A let of name v somewhere inside the branches or the body of statement st.
RECURSIVE LetInside(_, _)
LetInside(st, v) ==
    LET in(list) == \E i \in 1..Len(list) :
                        \/ list[i].k = "Let" /\ list[i].var_name = v
                        \/ LetInside(list[i], v)
    IN CASE st.k = "If" -> in(st.then_block) \/ in(st.else_block)
         [] st.k = "While" -> in(st.body)
         [] OTHER -> FALSE

\* The name a top-level statement reads directly: `return v;` or `.. = v;`.
ReadsName(st) ==
    IF st.k = "Return" /\ st.expr.k = "Variable" THEN {st.expr.name}
    ELSE IF st.k = "Assign" /\ st.value.k = "Variable" THEN {st.value.name}
    ELSE {}

Reported(e) == \E i \in 1..Len(errors) : errors[i] = e

\* C14: a name let inside an if branch or a while body is not visible after it
\* (a later use is reported as an undefined variable); a let outside remains
\* visible inside; assign never introduces a name (assigning to a name not in
\* scope is an undefined-variable error, and so is a use after it).
C14_BlockScopes ==
    pc # "semantic" =>
        \A i \in 1..Len(prog.functions) :
            LET func == prog.functions[i]
            IN /\ \A j \in 1..Len(func.body) :
                    /\ \A v \in ReadsName(func.body[j]) \ ScopeBefore(func, j) :
                            Reported(UndefinedVariable(func.name, v))
                    /\ (func.body[j].k = "Assign"
                            /\ func.body[j].var_name \notin ScopeBefore(func, j))
                        => /\ Reported(UndefinedVariable(func.name, func.body[j].var_name))
                           /\ (j < Len(func.body)
                                  /\ func.body[j].var_name \in ReadsName(func.body[j + 1]))
                              => Occurrences(errors,
                                     UndefinedVariable(func.name, func.body[j].var_name)) >= 2
               /\ (Len(func.body) > 0 /\ func.body[1].k = "Let"
                      /\ func.body[1].value.k \in {"IntLit", "FnCall"})
                  => ~Reported(UndefinedVariable(func.name, func.body[1].var_name))

\* `let a = 0; if 1 { let b = a; } w = b;` checked: b and w are reported, a is
\* not.
C14_Witness ==
    /\ pc = "exit1"
    /\ \E i \in 1..Len(prog.functions) :
          LET func == prog.functions[i]
          IN /\ Len(func.body) = 3
             /\ func.body[1].k = "Let"
             /\ func.body[2].k = "If"
             /\ \E v \in ReadsName(func.body[3]) :
                   /\ LetInside(func.body[2], v)
                   /\ Reported(UndefinedVariable(func.name, v))
             /\ func.body[2].then_block[1].value = Variable(func.body[1].var_name)
             /\ func.body[3].k = "Assign"
             /\ Reported(UndefinedVariable(func.name, func.body[3].var_name))
             /\ ~Reported(UndefinedVariable(func.name, func.body[1].var_name))

\* The registers a block defines and then reads in its terminator only.
DefinedThenReadByTerminator(block) ==
    {x \in terminator_reads(block.terminator) :
        /\ \E i \in 1..Len(block.instructions) : x \in Range(block.instructions[i].destination)
        /\ \A i \in 1..Len(block.instructions) : x \notin Range(block.instructions[i].args)}

RECURSIVE LiveBlocks(_, _, _)
LiveBlocks(cfg, x, found) ==
    LET grow(more) == IF more \subseteq found THEN found
                      ELSE LiveBlocks(cfg, x, found \cup more)
    IN grow({b \in 1..Len(cfg.blocks) :
                /\ x \notin block_use_def(cfg.blocks[b]).def_set
                /\ \E s \in get_successors(cfg.blocks[b].terminator) : (s + 1) \in found})

LiveOnSomePath(cfg, x) ==
    LiveBlocks(cfg, x, {b \in 1..Len(cfg.blocks) : x \in block_use_def(cfg.blocks[b]).use_set})

\* The two equations at every block of the result r of a CFG.
FixedPoint(cfg, r) ==
    \A b \in 1..Len(cfg.blocks) :
        /\ r[b].live_out = UNION {r[s + 1].live_in :
                                    s \in get_successors(cfg.blocks[b].terminator)}
        /\ r[b].live_in = r[b].use_set \cup (r[b].live_out \ r[b].def_set)

\* The least solution: x is live into B exactly when some path from B reads x
\* before any block on it defines x.
LeastSolution(cfg, r) ==
    \A x \in cfg_registers(cfg) :
        {b \in 1..Len(cfg.blocks) : x \in r[b].live_in} = LiveOnSomePath(cfg, x)

LivenessSettled(cfg, run) ==
    /\ run.terminated
    /\ FixedPoint(cfg, run.result)
    /\ LeastSolution(cfg, run.result)

\* C19: on every CFG, cyclic ones included, the liveness iteration terminates
\* and its result satisfies live_out(B) = union of live_in over the successors
\* of B and live_in(B) = use(B) \cup (live_out(B) \ def(B)) at every block, and
\* is the least such solution.
C19_LivenessFixedPoint ==
    pc = "typestate" => \A i \in 1..Len(ir) : LivenessSettled(ir[i].cfg, analyse_run(ir[i].cfg))

\* A lowered function with a loop through which a register stays live: the
\* iteration needs more than two turns and ends.
C19_Witness ==
    /\ pc = "typestate"
    /\ \E i \in 1..Len(ir) :
          /\ \E b \in 1..Len(ir[i].cfg.blocks) :
                /\ ir[i].cfg.blocks[b].terminator.k = "Jump"
                /\ ir[i].cfg.blocks[b].terminator.target < b - 1
                /\ analyse(ir[i].cfg)[b].live_out # {}
                /\ analyse(ir[i].cfg)[b].live_out \subseteq analyse(ir[i].cfg)[b].live_in
          /\ analyse_run(ir[i].cfg).passes > 2
          /\ analyse_run(ir[i].cfg).terminated

\* An allocation with a key for every register the CFG names and only the
\* seven temporaries as values.
TotalAllocation(cfg, allocation) ==
    /\ cfg_registers(cfg) \subseteq DOMAIN allocation
    /\ \A v \in DOMAIN allocation : allocation[v] \in Range(REGISTERS)

\* C15: the allocation returned by allocate is total: every virtual register
\* that is a destination or an argument of an instruction, a branch condition
\* or a return value is a key of the map, and every value is one of t0..t6.
C15_AllocationTotal ==
    pc = "typestate" =>
        \A i \in 1..Len(ir) : \A allocation \in allocate(ir[i].cfg) :
            TotalAllocation(ir[i].cfg, allocation)

\* A lowered function with more registers than temporaries, eight of them
\* alive at once: the allocation is total and two of the eight share a name.
C15_Witness ==
    /\ pc = "typestate"
    /\ \E i \in 1..Len(ir) :
          /\ Cardinality(cfg_registers(ir[i].cfg)) > Len(REGISTERS)
          /\ \E allocation \in allocate(ir[i].cfg) :
                /\ TotalAllocation(ir[i].cfg, allocation)
                /\ \E v, w \in 0..7 : v # w /\ allocation[v] = allocation[w]

\* The number of instructions of a stream whose op is one of ops, and the
\* number of Label instructions with a given label.
CountOps(stream, ops) == Cardinality({i \in 1..Len(stream) : stream[i].operation.op \in ops})
CountLabel(stream, l) ==
    Cardinality({i \in 1..Len(stream) : stream[i].operation = OpLabel(l)})

TerminatorOps == {"Jump", "BranchIfFalse", "Ret"}

\* One Label ".LBB{id}" for each non-entry block, none for the entry block, and
\* no other Label.
OneLabelPerBlock(cfg, stream) ==
    /\ \A b \in 1..Len(cfg.blocks) :
          CountLabel(stream, block_label(cfg.blocks[b].id))
              = IF cfg.blocks[b].id = cfg.entry THEN 0 ELSE 1
    /\ CountOps(stream, {"Label"}) = Len(cfg.blocks) - 1

\* The blocks whose Branch names a then-block other than the next block.
FarBranches(cfg) ==
    {b \in 1..Len(cfg.blocks) :
        /\ cfg.blocks[b].terminator.k = "Branch"
        /\ cfg.blocks[b].terminator.then_block # cfg.blocks[b].id + 1}

\* C17 as stated: flattening a lowered CFG yields exactly one Label ".LBB{id}"
\* for each non-entry block and none for the entry block, and exactly one
\* terminator-derived instruction for each terminator.
C17_OneInstructionPerTerminator ==
    pc = "typestate" =>
        \A i \in 1..Len(ir) :
            /\ OneLabelPerBlock(ir[i].cfg, flatten(ir[i].cfg))
            /\ CountOps(flatten(ir[i].cfg), TerminatorOps) = Len(ir[i].cfg.blocks)

\* C17, amended: one Label for each non-entry block and none for the entry
\* block; one terminator-derived instruction for each Jump and Return, and for
\* a Branch one BranchIfFalse, followed by a Jump when its then-block is not
\* the next block.
C17_LabelsAndTerminators ==
    pc = "typestate" =>
        \A i \in 1..Len(ir) :
            /\ OneLabelPerBlock(ir[i].cfg, flatten(ir[i].cfg))
            /\ CountOps(flatten(ir[i].cfg), {"BranchIfFalse"})
                  = Cardinality({b \in 1..Len(ir[i].cfg.blocks) :
                                    ir[i].cfg.blocks[b].terminator.k = "Branch"})
            /\ CountOps(flatten(ir[i].cfg), {"Ret"})
                  = Cardinality({b \in 1..Len(ir[i].cfg.blocks) :
                                    ir[i].cfg.blocks[b].terminator.k = "Return"})
            /\ CountOps(flatten(ir[i].cfg), {"Jump"})
                  = Cardinality({b \in 1..Len(ir[i].cfg.blocks) :
                                    ir[i].cfg.blocks[b].terminator.k = "Jump"})
                    + Cardinality(FarBranches(ir[i].cfg))

\* A lowered function with an if inside a loop body: the Branch of the if
\* names a then-block two ids ahead and flattens to two instructions.
C17_Witness ==
    /\ pc = "typestate"
    /\ \E i \in 1..Len(ir) :
          /\ FarBranches(ir[i].cfg) # {}
          /\ CountOps(flatten(ir[i].cfg), TerminatorOps)
                = Len(ir[i].cfg.blocks) + Cardinality(FarBranches(ir[i].cfg))
          /\ OneLabelPerBlock(ir[i].cfg, flatten(ir[i].cfg))

\* The places where the process has ended with a non-zero status: exit(1)
\* after a reported error, a panic, exit(1) after a failed write.
ExitedNonZero == pc \in {"exit1", "panic", "write_failed"}

\* The text holds the header of every function of the program.
CodeForEveryFunction(text) ==
    \A i \in 1..Len(prog.functions) :
        \E l \in 1..Len(text) : text[l] = <<".global", prog.functions[i].name>>

\* What holds of a written destination, and of an ended compilation.
WrittenOnlyAfterSuccess ==
    /\ destination # None =>
          /\ pc = "done"
          /\ errors = <<>> /\ semantic_check(prog) = <<>>
          /\ Len(ir) = Len(prog.functions)
          /\ ts.err = None /\ ts.verified = Len(prog.functions)
          /\ destination = Some(asm)
          /\ CodeForEveryFunction(asm)
    /\ (errors # <<>> \/ ts.err # None) => pc = "exit1"
    /\ ExitedNonZero => destination = None
    /\ pc = "done" => destination # None

\* The order of the phases: each one is entered from the one before it, and
\* only when that one succeeded.
PhaseOrder ==
    /\ (pc' = "lower" /\ pc # "lower") => (pc = "semantic" /\ errors' = <<>>)
    /\ (pc' = "typestate" /\ pc # "typestate") => (pc = "lower" /\ ir' # <<>>)
    /\ (pc' = "generate" /\ pc # "generate") => (pc = "typestate" /\ ts'.err = None)
    /\ (pc' = "write" /\ pc # "write") => (pc = "generate" /\ CodeForEveryFunction(asm'))
    /\ (pc' = "done" /\ pc # "done") => (pc = "write" /\ destination' = Some(asm))
    /\ destination' # destination => (pc = "write" /\ pc' = "done")
    /\ ExitedNonZero => pc' = pc

\* C18: the pipeline is gated in the order semantic check, lowering, typestate
\* check, code generation, write; the destination is written only after the
\* semantic check and the typestate check succeeded for the whole program and
\* code was generated for every function; on any error nothing is written and
\* the process ends with a non-zero status.
C18_GatedPipeline == []WrittenOnlyAfterSuccess /\ [][PhaseOrder]_vars

\* A compilation that ended with the destination written.
C18_Witness ==
    /\ pc = "done"
    /\ destination = Some(asm)
    /\ CodeForEveryFunction(asm)
    /\ ts.verified = Len(prog.functions)

\* The walk of function i of the lowered program, under a key order.
WalkOf(i, order) ==
    verify_function(prog.functions[i], ir[i].cfg, prog.peripherals,
                    build_signature_map(prog), order)

\* A call on a block that is in the visitation set returns at once: no error,
\* the environment it was given, no deeper call.
SkipsVisited(i, order) ==
    \A b \in 0..(Len(ir[i].cfg.blocks) - 1) :
        LET r == verify_block_recursive(ir[i].cfg, b, init_state_env(prog.peripherals),
                                        build_signature_map(prog), {b}, ir[i].name, order, 1)
        IN r.err = None /\ r.env = init_state_env(prog.peripherals) /\ r.depth = 1

\* C20: the verifier's walk of a CFG terminates, back-edges included: a block
\* already in the visitation set is skipped with the environment unchanged,
\* and the depth of the recursion never exceeds the number of blocks.
C20_WalkBounded ==
    pc = "typestate" =>
        \A i \in 1..Len(ir) : \A order \in KeyOrders(prog) :
            /\ WalkOf(i, order).depth <= Len(ir[i].cfg.blocks)
            /\ SkipsVisited(i, order)

\* A lowered function with a loop: the walk follows the back-edge into the
\* header it came through, returns from there and ends without error, four
\* calls deep.
C20_Witness ==
    /\ pc = "typestate"
    /\ \E i \in 1..Len(ir) : \E order \in KeyOrders(prog) :
          /\ \E b \in 1..Len(ir[i].cfg.blocks) :
                /\ ir[i].cfg.blocks[b].terminator.k = "Jump"
                /\ ir[i].cfg.blocks[b].terminator.target < b - 1
          /\ WalkOf(i, order).kind # "LeafDriver"
          /\ WalkOf(i, order).err = None
          /\ WalkOf(i, order).depth >= 4
          /\ WalkOf(i, order).depth <= Len(ir[i].cfg.blocks)
          /\ SkipsVisited(i, order)

(***************************************************************************)
(* The flattened stream against the control-flow graph                     *)
(***************************************************************************)
\* The position in flatten(cfg) of the first line of block id (its label, for
\* a block other than the entry), counted from the lengths of the blocks
\* before it, and the position of instruction idx of the block; the terminator
\* stands at idx = Len(instructions) + 1.
BlockStart(cfg, id) ==
    LET F[b \in 0..id] ==
            IF b = 0 THEN 1 ELSE F[b-1] + Len(flatten_block(cfg, cfg.blocks[b]))
    IN F[id]
InstrPos(cfg, id, idx) ==
    BlockStart(cfg, id) + (IF id # cfg.entry THEN 1 ELSE 0) + idx - 1
TerminatorPos(cfg, id) == InstrPos(cfg, id, Len(Block(cfg, id).instructions) + 1)

\* The block the terminator of block id names for a condition register that
\* is zero or not; -1 stands for leaving the function.
CfgSuccessor(cfg, id, zero) ==
    LET term == Block(cfg, id).terminator
    IN CASE term.k \in {"Jump", "Fallthrough"} -> term.target
         [] term.k = "Branch" -> IF zero THEN term.else_block ELSE term.then_block
         [] OTHER -> -1

\* From the terminator of block id the stream takes the machine to the label
\* of the block the terminator names, or out of the function for a Return.
StreamFollows(cfg, stream, id, zero) ==
    LET landed(q, t) ==
            IF t = -1 THEN q = 0
            ELSE /\ q = BlockStart(cfg, t)
                 /\ q \in 1..Len(stream)
                 /\ stream[q].operation = OpLabel(block_label(t))
    IN landed(TransferTo(stream, TerminatorPos(cfg, id), zero), CfgSuccessor(cfg, id, zero))

\* The last line of a block is a transfer of control, except that a beqz may
\* stand last when the block's then-block is the block emitted next.
NoStrayFallthrough(cfg, id) ==
    LET lines == flatten_block(cfg, Block(cfg, id))
        last == lines[Len(lines)].operation
    IN /\ lines # <<>>
       /\ \/ last.op \in {"Jump", "Ret"}
          \/ /\ last.op = "BranchIfFalse"
             /\ Block(cfg, id).terminator.k = "Branch"
             /\ Block(cfg, id).terminator.then_block = id + 1
             /\ id + 1 < Len(cfg.blocks)

\* A frame of the run stands in the stream where it stands in the graph.
FrameInStep(f) ==
    /\ f.sp = InstrPos(ir[f.fn].cfg, f.block, f.idx)
    /\ f.idx <= Len(Block(ir[f.fn].cfg, f.block).instructions)
          => flatten(ir[f.fn].cfg)[f.sp] = Block(ir[f.fn].cfg, f.block).instructions[f.idx]

\* C21: executing the flattened stream follows the CFG.  For every block of
\* every lowered function the stream goes from the block's terminator to the
\* label of the successor the terminator names (Jump to its target, Branch to
\* the else-block on zero and to the then-block otherwise, Return out of the
\* function) and no block falls into a block that is not its successor; and a
\* run of the stream stays in step with the run of the graph, block by block
\* and instruction by instruction.
C21_StreamFollowsCFG ==
    /\ pc = "typestate" =>
          \A i \in 1..Len(ir) : \A b \in 0..(Len(ir[i].cfg.blocks) - 1) :
              /\ NoStrayFallthrough(ir[i].cfg, b)
              /\ \A zero \in BOOLEAN : StreamFollows(ir[i].cfg, flatten(ir[i].cfg), b, zero)
    /\ pc = "run" =>
          /\ FrameInStep(ex)
          /\ \A k \in 1..Len(ex.stack) : FrameInStep(ex.stack[k])
    /\ pc = "returned" => ex.sp = 0

\* A run that has gone round a loop and has just entered, through the "j"
\* after a beqz that was not taken, the then-block of a Branch whose
\* then-block is not the next block.
C21_Witness ==
    /\ pc = "run"
    /\ ex.cyc
    /\ ex.idx = 1
    /\ \E b \in FarBranches(ir[ex.fn].cfg) :
          /\ ir[ex.fn].cfg.blocks[b].terminator.then_block = ex.block
          /\ ExecStream[TerminatorPos(ir[ex.fn].cfg, b - 1) + 1].operation
                = OpJump(block_label(ex.block))
    /\ FrameInStep(ex)
    /\ ExecStream[ex.sp - 1].operation = OpLabel(block_label(ex.block))

(***************************************************************************)
(* Terminators during lowering                                             *)
(***************************************************************************)
\* The context of lower_function after the first n statements of the body.
LoweredPrefix(func, n) ==
    lower_statements(lower_args(Context_new(prog.peripherals, build_signature_map(prog)),
                                func.args),
                     SubSeq(func.body, 1, n))

\* The blocks whose terminator, set before statement n + 1 is lowered, is
\* another one after statement m has been lowered.
Overwritten(func, n, m) ==
    LET changed(before, after) ==
            {b \in 1..Len(before.cfg.blocks) :
                /\ before.cfg.blocks[b].terminator # TNone
                /\ after.cfg.blocks[b].terminator # before.cfg.blocks[b].terminator}
    IN changed(LoweredPrefix(func, n), LoweredPrefix(func, m))

\* C22: during the lowering of a function a terminator that has been set to a
\* value other than None is never overwritten, also when further statements
\* follow a return in the same statement list.
C22_TerminatorSetOnce ==
    pc = "typestate" =>
        \A i \in 1..Len(prog.functions) :
            \A m \in 0..Len(prog.functions[i].body) : \A n \in 0..m :
                Overwritten(prog.functions[i], n, m) = {}

(***************************************************************************)
(* The blocks of a while loop whose body returns                           *)
(***************************************************************************)
\* The statements of a body, by position, that are while loops whose body
\* ends in a return.
ReturningLoops(func) ==
    {j \in 1..Len(func.body) :
        /\ func.body[j].k = "While"
        /\ func.body[j].body # <<>>
        /\ func.body[j].body[Len(func.body[j].body)].k = "Return"}

\* The header of the loop at position j is the first block added for it; the
\* body block and the exit block are the next two.
HeaderOf(func, j) == Len(LoweredPrefix(func, j - 1).cfg.blocks)
ExitOf(func, j) == HeaderOf(func, j) + 2

RECURSIVE SumOver(_, _)
SumOver(lens, n) == IF n = 0 THEN 0 ELSE lens[n] + SumOver(lens, n - 1)
StatementCount(cfg) ==
    SumOver([b \in 1..Len(cfg.blocks) |-> Len(cfg.blocks[b].statements)], Len(cfg.blocks))
InstructionCount(cfg) ==
    SumOver([b \in 1..Len(cfg.blocks) |-> Len(cfg.blocks[b].instructions)], Len(cfg.blocks))

\* Lowering statement j of the body adds to both streams.
AddsToBoth(func, j) ==
    /\ StatementCount(LoweredPrefix(func, j).cfg)
          > StatementCount(LoweredPrefix(func, j - 1).cfg)
    /\ InstructionCount(LoweredPrefix(func, j).cfg)
          > InstructionCount(LoweredPrefix(func, j - 1).cfg)

\* C24: lowering any statement (let, assign, expression, if, while, return,
\* peripheral write) appends both a semantic statement and at least one
\* machine instruction to the CFG.
C24_BothStreams ==
    pc = "typestate" =>
        \A i \in 1..Len(prog.functions) : \A j \in 1..Len(prog.functions[i].body) :
            AddsToBoth(prog.functions[i], j)

(***************************************************************************)
(* The semantic statement of an expression statement                       *)
(***************************************************************************)
\* The names of the functions an expression calls, at any depth.
RECURSIVE CalledIn(_)
CalledIn(expr) ==
    CASE expr.k = "FnCall" ->
            {expr.name} \cup UNION {CalledIn(expr.args[a]) : a \in 1..Len(expr.args)}
      [] expr.k = "Binary" -> CalledIn(expr.left) \cup CalledIn(expr.right)
      [] expr.k = "Unary" -> CalledIn(expr.operand)
      [] OTHER -> {}

\* The semantic statement that lowering statement j of the body has appended
\* to the current block (for a statement that appends one and stays in its
\* block).
EmittedStatement(func, j) ==
    LET last(stmts) == stmts[Len(stmts)]
        of(ctx) == last(Block(ctx.cfg, ctx.current_block).statements)
    IN of(LoweredPrefix(func, j))

\* The driver-call statement of a callee, from the callee's signature.
DriverCallOf(n) ==
    SPeripheralDriverCall(n, Signatures[n].peripheral, Signatures[n].input_state,
                          Signatures[n].output_state)

\* C25: lowering an expression statement that contains a call of a function
\* with a typestate signature emits PeripheralDriverCall with the callee's
\* name and the peripheral, input state and output state of its signature,
\* never a plain Expr; an expression statement without a signed callee emits a
\* plain Expr.
C25_DriverCallStatement ==
    pc = "typestate" =>
        \A i \in 1..Len(prog.functions) :
            \A j \in {k \in 1..Len(prog.functions[i].body) :
                          prog.functions[i].body[k].k = "Expr"} :
                LET signed == CalledIn(prog.functions[i].body[j].expr) \cap DOMAIN Signatures
                IN IF signed = {}
                   THEN EmittedStatement(prog.functions[i], j)
                            = SExpr(ast_expr_to_cfg(prog.functions[i].body[j].expr))
                   ELSE \E n \in signed :
                            EmittedStatement(prog.functions[i], j) = DriverCallOf(n)

(***************************************************************************)
(* A loop without driver calls, followed by driver calls                   *)
(***************************************************************************)
\* The Call instructions of a CFG, by block and position.
CallInstrs(cfg) ==
    UNION {{<<b, i>> : i \in {j \in 1..Len(cfg.blocks[b].instructions) :
                                cfg.blocks[b].instructions[j].operation.op = "Call"}} :
              b \in 1..Len(cfg.blocks)}

\* Function f is an Orchestration function  while c { .. }  d1(); .. dn();
\* whose loop calls nothing (every call of the function is one of the driver
\* calls after the loop) and whose driver calls each find their peripheral in
\* their input state, starting from the initial states.
LoopThenCalls(f) ==
    LET body == prog.functions[f].body
    IN /\ prog.functions[f].signature = None
       /\ Len(body) >= 2
       /\ body[1].k = "While"
       /\ \A n \in 2..Len(body) : IsDriverCallStmt(body[n])
       /\ Cardinality(CallInstrs(ir[f].cfg)) = Len(body) - 1
       /\ Offending(Tail(body)) = {}

\* C26: an Orchestration function made of a while loop whose body holds no
\* driver call, followed by driver calls whose declared input state is the
\* current state of their peripheral, is accepted by the verifier.
C26_LoopThenCallAccepted ==
    pc = "typestate" =>
        \A f \in 1..Len(ir) : LoopThenCalls(f) =>
            \A order \in KeyOrders(prog) :
                verify_function(prog.functions[f], ir[f].cfg, prog.peripherals,
                                Signatures, order).err = None

(***************************************************************************)
(* Registers read before they are defined                                  *)
(***************************************************************************)
\* C27: in the CFG lowered from any function of a program that passed the
\* semantic check no virtual register is read on a path from the entry block
\* before an instruction on that path has defined it: live_in of the entry
\* block is empty.  In particular a variable read after an if or a while is
\* the register it was bound to before the construct, also when the branch or
\* the body declares the name again.
C27_EntryLiveInEmpty ==
    pc = "typestate" =>
        \A i \in 1..Len(ir) : analyse(ir[i].cfg)[ir[i].cfg.entry + 1].live_in = {}

(***************************************************************************)
(* Linear scan when seven registers suffice                                *)
(***************************************************************************)
\* The intervals of a vector that contain a program point (both ends count),
\* and the vectors no point of which lies in more than seven intervals: the
\* intervals over a point all contain the latest of their starts, so the
\* starts are the points to count at.
LiveAt(intervals, point) ==
    {k \in 1..Len(intervals) : intervals[k].start <= point /\ point <= intervals[k].end}
AtMostSevenLive(intervals) ==
    \A k \in 1..Len(intervals) :
        Cardinality(LiveAt(intervals, intervals[k].start)) <= Len(REGISTERS)

\* The turn of the loop for interval k finds a free register to pop: one left
\* by the turns before it or one given back by an interval that has expired.
TakesFreeRegister(intervals, k) ==
    LET found(st) ==
            \/ st.free # <<>>
            \/ \E a \in 1..Len(st.active) : st.active[a].interval.end < intervals[k].start
    IN found(linear_scan_after(intervals, k - 1))

\* Two intervals that share a program point have different registers.
OverlapsApart(intervals, allocation) ==
    \A k, m \in 1..Len(intervals) :
        (k # m /\ intervals[k].start <= intervals[m].end
                /\ intervals[m].start <= intervals[k].end)
            => allocation[intervals[k].vreg] # allocation[intervals[m].vreg]

\* C28: if no program point lies in more than seven live intervals, linear
\* scan takes neither the spill path nor the modulo fallback, and gives
\* different physical registers to any two virtual registers whose inclusive
\* intervals overlap: a register is used again only for an interval that
\* starts strictly after the end of the one that held it.
C28_NoSpillNoClash ==
    pc = "typestate" =>
        \A i \in 1..Len(ir) :
            \A intervals \in build_intervals(ir[i].cfg, analyse(ir[i].cfg)) :
                AtMostSevenLive(intervals) =>
                    /\ \A k \in 1..Len(intervals) : TakesFreeRegister(intervals, k)
                    /\ OverlapsApart(intervals, linear_scan(intervals))

\* A function with exactly seven intervals over one program point, all seven
\* registers in use there, and a register used a second time by an interval
\* that starts after the end of its first holder.
C28_Witness ==
    /\ pc = "typestate"
    /\ \E i \in 1..Len(ir) :
          \E intervals \in build_intervals(ir[i].cfg, analyse(ir[i].cfg)) :
              /\ AtMostSevenLive(intervals)
              /\ \E k \in 1..Len(intervals) :
                    Cardinality(LiveAt(intervals, intervals[k].start)) = Len(REGISTERS)
              /\ \E k, m \in 1..Len(intervals) :
                    /\ intervals[k].end < intervals[m].start
                    /\ linear_scan(intervals)[intervals[k].vreg]
                          = linear_scan(intervals)[intervals[m].vreg]
              /\ \A k \in 1..Len(intervals) : TakesFreeRegister(intervals, k)
              /\ OverlapsApart(intervals, linear_scan(intervals))

(***************************************************************************)
(* The labels of one function                                              *)
(***************************************************************************)
\* The lines of a stream that name a label as their target.
LabelUses(stream) ==
    {k \in 1..Len(stream) : stream[k].operation.op \in {"Jump", "BranchIfFalse"}}

\* C29: no terminator produced by lowering names the entry block (block 0),
\* so in the flattened stream of a function every label a Jump or a
\* BranchIfFalse names is defined by exactly one Label of that stream.
C29_LabelsResolve ==
    pc = "typestate" =>
        \A i \in 1..Len(ir) :
            /\ \A b \in 1..Len(ir[i].cfg.blocks) :
                  ir[i].cfg.entry \notin Targets(ir[i].cfg.blocks[b].terminator)
            /\ \A k \in LabelUses(flatten(ir[i].cfg)) :
                  CountLabel(flatten(ir[i].cfg), flatten(ir[i].cfg)[k].operation.label) = 1

\* A function that begins with a loop: the body jumps back to block 1, the
\* block next to the entry, and the stream names .LBB1 in a "j" and defines it
\* once; the entry block has no label.
C29_Witness ==
    /\ pc = "typestate"
    /\ \E i \in 1..Len(ir) :
          /\ Block(ir[i].cfg, 0).terminator = TJump(1)
          /\ \E b \in 2..Len(ir[i].cfg.blocks) : ir[i].cfg.blocks[b].terminator = TJump(1)
          /\ CountLabel(flatten(ir[i].cfg), block_label(1)) = 1
          /\ CountLabel(flatten(ir[i].cfg), block_label(0)) = 0
          /\ Cardinality({k \in LabelUses(flatten(ir[i].cfg)) :
                              flatten(ir[i].cfg)[k].operation = OpJump(block_label(1))}) >= 2
          /\ \E k \in LabelUses(flatten(ir[i].cfg)) :
                flatten(ir[i].cfg)[k].operation.op = "BranchIfFalse"

(***************************************************************************)
(* The labels of the whole assembly                                        *)
(***************************************************************************)
\* For every line of the text generate writes for function i, in order,
\* whether the line is the definition of a block label: the five lines of the
\* prologue are not, and of the lines of an instruction only the line of a
\* Label is.  (The number of lines of an instruction does not depend on the
\* allocation.)
LabelLinesOf(i) ==
    LET stream == flatten(ir[i].cfg)
        lines(instr, allocation) ==
            [l \in 1..Len(emit_instruction(instr, allocation)) |->
                instr.operation.op = "Label"]
        all(allocation) ==
            LET F[k \in 0..Len(stream)] ==
                    IF k = 0 THEN [l \in 1..5 |-> FALSE]
                    ELSE F[k-1] \o lines(stream[k], allocation)
            IN F[Len(stream)]
    IN all(CHOOSE allocation \in allocate(ir[i].cfg) : TRUE)

\* The same for the assembly of the whole program, function after function.
LabelLines ==
    LET F[i \in 0..Len(ir)] == IF i = 0 THEN <<>> ELSE F[i-1] \o LabelLinesOf(i)
    IN F[Len(ir)]

\* C30: in the assembly produced for a whole program no block label is
\* defined more than once, also when two functions have several blocks each:
\* every j / beqz target names one definition.
C30_LabelsUniqueInProgram ==
    pc \in {"write", "done"} =>
        LET defs(kinds) ==
                /\ Len(kinds) = Len(asm)
                /\ \A k, m \in {l \in 1..Len(asm) : kinds[l]} :
                      k # m => asm[k][1] # asm[m][1]
        IN defs(LabelLines)

====
